---- MODULE Spec2Model ----
(***************************************************************************)
(* Verification model of crypto3-math: the two-level ThreadPool with its   *)
(* range-parallel helpers (multithreading/thread_pool.hpp,                 *)
(* multithreading/parallelization_utils.hpp), the geometric sequence       *)
(* evaluation domain (domains/geometric_sequence_domain.hpp), the Builder  *)
(* and the Neighbors iterator of the composition polynomial                *)
(* (polynomial/composition) and the compile-time expression evaluator      *)
(* (expressions/expression_tstr.hpp).                                      *)
(***************************************************************************)
EXTENDS Integers, Sequences, FiniteSets, TLC

VARIABLES
    bx,          \* one block_execution call taken alone: its inputs and result
    pool_size,   \* ThreadPool::pool_size of the two singletons
    task,        \* the tasks posted so far (packaged_task and its future)
    queue,       \* per pool, the posted tasks no worker has taken yet
    running,     \* per pool, the tasks its worker threads are executing
    frame,       \* per caller (0: the main thread, t: task t), its parallel_for call
    aborted,     \* the process was terminated by a trap
    submitted,   \* history: the <<from, to>> pairs of the calls made so far
    calls,       \* the number of calls made from inside tasks so far
    geometric_generator,  \* arithmetic_params<FieldType>::geometric_generator
    domain,      \* one geometric_sequence_domain object
    buffer,      \* the vector a handed to fft and inverse_fft
    buffer0,     \* history: the buffer before the first transform
    hist,        \* history: the transforms applied to the buffer, in order
    out,         \* the last value returned by a method of the domain
    inverted_zero,  \* the last call on the domain called inversed() on zero
    instance,    \* get_instance's function-local statics
    requested,   \* history: the get_instance calls made so far, with what they returned
    ret,         \* the last value returned by get_instance or by block_execution on it
    pt,          \* one parallel_transform call: its arguments, position and chunk tasks
    input,       \* the ranges [first1, last1) and [first2, ...) it reads
    dest,        \* the range at d_first: per position, the value and who wrote it
    periodic_columns_,  \* CompositionPolynomialImpl::Builder::periodic_columns_
    result,      \* the outcome of the last call on the Builder
    ex,          \* one ExpressionTstr::eval call: the expression, the dictionary, the value
    nb,          \* one Neighbors object, an Iterator on it and what operator* returned
    thread       \* per thread sharing the domain, its position in get_domain_element

poolvars == <<pool_size, task, queue, running, frame, aborted, submitted, calls>>
domvars == <<geometric_generator, domain, buffer, buffer0, hist, out, inverted_zero>>
instvars == <<instance, requested, ret>>
ptvars == <<pt, input, dest>>
buildervars == <<periodic_columns_, result>>
auxvars == <<instvars, ptvars, buildervars, ex, nb, thread>>
vars == <<bx, poolvars, domvars, auxvars>>

(***************************************************************************)
(* Bounds of the model.                                                    *)
(***************************************************************************)
\* largest pool_size a pool is constructed with
MaxPool == 3
\* largest small elements_count; larger counts are taken around the
\* multiples of POOL_0_MIN_CHUNK_SIZE
MaxElements == 9
\* largest number of worker threads of a pool in the scheduling model
MaxWorkers == 2
\* largest elements_count of a call made from inside a task
MaxNested == 1
\* largest number of calls made from inside tasks
MaxCalls == 2
\* largest small elements_count of the main thread's call
MaxMain == 1
\* largest start index of the main thread's call
MaxStart == 1
\* largest domain size m
MaxM == 3
\* largest number of transforms applied to one buffer
MaxOps == 2
\* largest coefficient of an initial buffer
MaxCoefficient == 1
\* largest number of get_instance calls
MaxRequests == 3
\* longest range handed to parallel_transform
MaxLen == 4
\* largest element of an input range
MaxValue == 1
\* largest num_periodic_columns of a Builder
MaxColumns == 3
\* largest number of variables of an expression
MaxTerms == 4
\* the width in bits of the words size_t, uint64_t and int64_t of the model
\* (64 in the code)
WordBits == 6
\* largest k of a coset of size 2^k
MaxLog == 3

(***************************************************************************)
(* ThreadPool (thread_pool.hpp).                                           *)
(***************************************************************************)
LOW_LEVEL_POOL_ID == "LOW_LEVEL_POOL_ID"
HIGH_LEVEL_POOL_ID == "HIGH_LEVEL_POOL_ID"
PoolID == {LOW_LEVEL_POOL_ID, HIGH_LEVEL_POOL_ID}

POOL_0_MIN_CHUNK_SIZE == 65536

Min(a, b) == IF a < b THEN a ELSE b
Max(a, b) == IF a < b THEN b ELSE a

\* line 88: std::max((size_t)1, std::min(elements_count, pool_size))
cpu_usage_naive(elements_count, psize) ==
    Max(1, Min(elements_count, psize))

\* line 93: the Low pool's floor on element_per_cpu
floor_applies(pool_id, elements_count, psize) ==
    /\ pool_id = LOW_LEVEL_POOL_ID
    /\ elements_count \div cpu_usage_naive(elements_count, psize)
          < POOL_0_MIN_CHUNK_SIZE

\* mutant: the conditional binds as (a % b ? 1 : 0)
cpu_usage_floor_mut(elements_count) ==
    (elements_count \div POOL_0_MIN_CHUNK_SIZE)
      + (IF elements_count % POOL_0_MIN_CHUNK_SIZE # 0 THEN 1 ELSE 0)
\* line 94: a / b + a % b ? 1 : 0 parses as ((a / b) + (a % b)) ? 1 : 0
cpu_usage_floor(elements_count) ==
    IF (elements_count \div POOL_0_MIN_CHUNK_SIZE)
         + (elements_count % POOL_0_MIN_CHUNK_SIZE) # 0 THEN 1 ELSE 0

\* lines 88-94: the number of chunks the loop of line 99 runs over
cpu_usage(pool_id, elements_count, psize) ==
    IF floor_applies(pool_id, elements_count, psize)
    THEN cpu_usage_floor(elements_count)
    ELSE cpu_usage_naive(elements_count, psize)

\* mutant: every chunk after the first starts one element late
chunk_begin_mut(i, element_per_cpu) == element_per_cpu * i + (IF i > 0 THEN 1 ELSE 0)
\* line 100 (i counts from 0 as in the code)
chunk_begin(i, element_per_cpu) == element_per_cpu * i

\* mutant: the last chunk is cut like the others and the remainder is lost
chunk_end_mut(i, usage, element_per_cpu, elements_count) ==
    element_per_cpu * (i + 1)
\* line 101: the last chunk takes the remainder
chunk_end(i, usage, element_per_cpu, elements_count) ==
    IF i = usage - 1 THEN elements_count ELSE element_per_cpu * (i + 1)

\* lines 98-105: the ranges of the posted tasks, in posting order
chunks(usage, element_per_cpu, elements_count) ==
    [j \in 1..usage |->
        [begin |-> chunk_begin(j - 1, element_per_cpu),
         end   |-> chunk_end(j - 1, usage, element_per_cpu, elements_count)]]

\* lines 87-106.  The outcomes of one call: the ranges posted, or the
\* abort of the process.  With cpu_usage = 0 line 95 divides by zero, which is
\* undefined: the division traps, or yields some quotient and the loop of
\* line 99 runs zero times, or the build takes the divisor to be the only
\* non-zero value the conditional has (1) and the loop runs once.
block_execution(pool_id, elements_count, psize) ==
    LET usage == cpu_usage(pool_id, elements_count, psize)
    IN  IF usage = 0
        THEN {[crash |-> TRUE, fut |-> <<>>], [crash |-> FALSE, fut |-> <<>>],
              [crash |-> FALSE, fut |-> chunks(1, elements_count, elements_count)]}
        ELSE {[crash |-> FALSE,
               fut |-> chunks(usage, elements_count \div usage, elements_count)]}

(***************************************************************************)
(* Specification SpecBlock: block_execution as a function of its inputs.   *)
(***************************************************************************)
\* elements_count values: the small ones and those around k * 65536
ElementCounts ==
    (0..MaxElements)
      \cup {c * POOL_0_MIN_CHUNK_SIZE + d : c \in 1..(MaxPool + 1), d \in {-1, 0, 1}}

PoolSizes == 1..MaxPool

\* the scheduling model at rest
PoolUnused ==
    /\ pool_size = [p \in PoolID |-> 1]
    /\ task = <<>>
    /\ queue = [p \in PoolID |-> <<>>]
    /\ running = [p \in PoolID |-> {}]
    /\ frame = <<>>
    /\ aborted = FALSE
    /\ submitted = {}
    /\ calls = 0

\* the domain model at rest
DomainUnused ==
    /\ geometric_generator = 1
    /\ domain = <<>>
    /\ buffer = <<>>
    /\ buffer0 = <<>>
    /\ hist = <<>>
    /\ out = <<>>
    /\ inverted_zero = FALSE

\* no get_instance call made
InstanceUnused ==
    /\ instance = <<>>
    /\ requested = <<>>
    /\ ret = <<>>

\* no parallel_transform call made
TransformUnused ==
    /\ pt = <<>>
    /\ input = <<>>
    /\ dest = <<>>

\* no Builder constructed
BuilderUnused ==
    /\ periodic_columns_ = <<>>
    /\ result = <<>>

\* no expression evaluated, no Neighbors constructed, no thread started
ExpressionUnused == ex = <<>> /\ nb = <<>> /\ thread = <<>>

\* the models the specification at hand does not use, at rest
AuxUnused ==
    /\ InstanceUnused
    /\ TransformUnused
    /\ BuilderUnused
    /\ ExpressionUnused

InitBlock ==
    /\ AuxUnused
    /\ bx \in [pool_id : PoolID, elements_count : ElementCounts,
                pool_size : PoolSizes, pc : {"call"}, fut : {<<>>}]
    /\ PoolUnused
    /\ DomainUnused

BlockExecution ==
    /\ bx.pc = "call"
    /\ \E o \in block_execution(bx.pool_id, bx.elements_count, bx.pool_size) :
          bx' = [bx EXCEPT !.pc = IF o.crash THEN "aborted" ELSE "returned",
                           !.fut = o.fut]
    /\ UNCHANGED <<poolvars, domvars, auxvars>>

NextBlock == BlockExecution

SpecBlock == InitBlock /\ [][NextBlock]_vars

(***************************************************************************)
(* The scheduling model: two pools of worker threads, the tasks posted to  *)
(* them, and the callers of parallel_for blocked in wait_for_all           *)
(* (parallelization_utils.hpp).  A caller is named by its path: <<>> is    *)
(* the main thread, Append(c, j) the j-th task of the call c made.  The    *)
(* futures of a call made inside a task are destroyed when the call        *)
(* returns; those of the main thread's call are kept for inspection.       *)
(* A worker that takes a task runs it up to the point where it blocks or   *)
(* ends: the steps of one thread in between touch nothing shared.          *)
(***************************************************************************)
MAIN == <<>>

\* the main thread before its call
IdleFrame ==
    [pc |-> "idle", pool |-> LOW_LEVEL_POOL_ID, start |-> 0, n |-> 0,
     futs |-> <<>>, k |-> 1]

\* the inputs of the calls
MainCounts == (0..MaxMain) \cup {2 * POOL_0_MIN_CHUNK_SIZE + 1}

\* ThreadPool::post, lines 68-74: a packaged_task with its future, queued
NewTask(pool, start, range) ==
    [pool |-> pool, begin |-> range.begin, end |-> range.end, start |-> start,
     status |-> "queued", threw |-> FALSE, lo |-> 0, hi |-> 0]

Restrict(f, S) == [x \in S |-> f[x]]
Children(c) == {t \in DOMAIN task : Len(t) = Len(c) + 1 /\ SubSeq(t, 1, Len(c)) = c}
Ids(c, fut) == [j \in 1..Len(fut) |-> Append(c, j)]

\* block_execution's loop of posts, lines 99-105, in posting order
posted(c, pool, start, fut) ==
    [t \in DOMAIN task \cup {Append(c, j) : j \in 1..Len(fut)} |->
        IF t \in DOMAIN task THEN task[t]
        ELSE NewTask(pool, start, fut[t[Len(t)]])]

\* the frame of a caller inside wait_for_all
Waiting(pool, start, n, ids) ==
    [pc |-> "waiting", pool |-> pool, start |-> start, n |-> n,
     futs |-> ids, k |-> 1]

\* parallel_for called by the main thread, lines 124-134, up to the first
\* wait: get_instance, block_execution and its posts.  A trap in
\* block_execution ends the process; with no future to wait for the call
\* returns at once.
MainCall ==
    /\ ~aborted
    /\ frame[MAIN].pc = "idle"
    /\ \E pool \in PoolID, start \in 0..MaxStart, n \in MainCounts :
         \E o \in block_execution(pool, n, pool_size[pool]) :
            /\ submitted' = submitted \cup {<<"main", pool>>}
            /\ aborted' = o.crash
            /\ IF o.crash
               THEN /\ frame' = [frame EXCEPT ![MAIN] =
                          [Waiting(pool, start, n, <<>>) EXCEPT !.pc = "aborted"]]
                    /\ UNCHANGED <<task, queue>>
               ELSE /\ task' = posted(MAIN, pool, start, o.fut)
                    /\ queue' = [queue EXCEPT ![pool] = @ \o Ids(MAIN, o.fut)]
                    /\ frame' = [frame EXCEPT ![MAIN] =
                          [Waiting(pool, start, n, Ids(MAIN, o.fut)) EXCEPT
                              !.pc = IF o.fut = <<>> THEN "returned" ELSE "waiting"]]
    /\ UNCHANGED <<bx, auxvars, pool_size, running, calls, domvars>>

\* the lambda parallel_for hands to block_execution, lines 129-133: func(i)
\* for start + range_begin <= i < start + range_end
chunk_loop(start, range_begin, range_end) ==
    [lo |-> start + range_begin, hi |-> start + range_end]

\* the index at which func is let throw
ThrowAt(t) ==
    IF task[t].begin < task[t].end THEN {task[t].start + task[t].begin} ELSE {}

\* mutant: the pool is built with one thread less than pool_size
CanTake_mut(p) ==
    /\ ~aborted
    /\ queue[p] # <<>>
    /\ Cardinality(running[p]) < pool_size[p] - 1
\* mutant: the pool is built with one thread more than pool_size
CanTake_more(p) ==
    /\ ~aborted
    /\ queue[p] # <<>>
    /\ Cardinality(running[p]) < pool_size[p] + 1
\* a worker can take the oldest queued task of its pool (the lambda of
\* line 72 starts); the pool has pool_size threads (line 111)
CanTake(p) ==
    /\ ~aborted
    /\ queue[p] # <<>>
    /\ Cardinality(running[p]) < pool_size[p]

\* a worker takes a task whose func makes no call and runs it: the loop runs
\* to its end, or func throws at index j, the loop is left and the
\* packaged_task stores the exception in the future; either way the future
\* becomes ready
TakeLeaf(p) ==
    /\ CanTake(p)
    /\ LET t == Head(queue[p])
           r == chunk_loop(task[t].start, task[t].begin, task[t].end)
       IN  \/ task' = [task EXCEPT ![t] =
                         [@ EXCEPT !.status = "ready", !.lo = r.lo, !.hi = r.hi]]
           \/ \E j \in ThrowAt(t) :
                 task' = [task EXCEPT ![t] =
                           [@ EXCEPT !.status = "ready", !.threw = TRUE,
                                     !.lo = r.lo, !.hi = j + 1]]
    /\ queue' = [queue EXCEPT ![p] = Tail(@)]
    /\ UNCHANGED <<bx, auxvars, pool_size, running, frame, aborted, submitted, calls, domvars>>

\* a worker takes a task whose func, called for a non-empty range, calls
\* parallel_for itself: the worker thread is the caller and blocks in
\* wait_for_all
TakeFan(p) ==
    /\ CanTake(p)
    /\ calls < MaxCalls
    /\ LET t == Head(queue[p])
       IN  /\ task[t].begin < task[t].end
           /\ \E pool \in PoolID, n \in 0..MaxNested :
                \E o \in block_execution(pool, n, pool_size[pool]) :
                   /\ submitted' = submitted \cup {<<p, pool>>}
                   /\ aborted' = o.crash
                   /\ IF o.crash
                      THEN UNCHANGED <<task, queue, frame, running>>
                      ELSE IF o.fut = <<>>
                      THEN /\ task' = [task EXCEPT ![t].status = "ready"]
                           /\ queue' = [queue EXCEPT ![p] = Tail(@)]
                           /\ UNCHANGED <<frame, running>>
                      ELSE /\ task' = [posted(t, pool, 0, o.fut) EXCEPT
                                          ![t].status = "running"]
                           /\ queue' = [q \in PoolID |->
                                 (IF q = p THEN Tail(queue[q]) ELSE queue[q])
                                   \o (IF q = pool THEN Ids(t, o.fut) ELSE <<>>)]
                           /\ frame' = [x \in DOMAIN frame \cup {t} |->
                                 IF x = t THEN Waiting(pool, 0, n, Ids(t, o.fut))
                                 ELSE frame[x]]
                           /\ running' = [running EXCEPT ![p] = @ \cup {t}]
    /\ calls' = calls + 1
    /\ UNCHANGED <<bx, auxvars, pool_size, domvars>>

\* mutant: the wait ends as soon as a worker has taken the task
future_wait_mut(t) == task[t].status # "queued"
\* std::future::wait, line 38: blocks until the shared state is ready; it
\* does not rethrow what the task stored
future_wait(t) == task[t].status = "ready"

\* wait_for_all, lines 36-40: one iteration of the loop.  After the last one
\* parallel_for returns: the main thread goes on; inside a task, func and the
\* task are over, the futures of the call are destroyed and the worker is
\* free again.
WaitForAll(c) ==
    /\ ~aborted
    /\ frame[c].pc = "waiting"
    /\ future_wait(frame[c].futs[frame[c].k])
    /\ IF frame[c].k < Len(frame[c].futs)
       THEN /\ frame' = [frame EXCEPT ![c].k = @ + 1]
            /\ UNCHANGED <<task, running>>
       ELSE IF c = MAIN
       THEN /\ frame' = [frame EXCEPT ![c].k = @ + 1, ![c].pc = "returned"]
            /\ UNCHANGED <<task, running>>
       ELSE /\ frame' = Restrict(frame, DOMAIN frame \ {c})
            /\ task' = [t \in DOMAIN task \ Children(c) |->
                           IF t = c THEN [task[t] EXCEPT !.status = "ready"]
                           ELSE task[t]]
            /\ running' = [running EXCEPT ![task[c].pool] = @ \ {c}]
    /\ UNCHANGED <<bx, auxvars, pool_size, queue, aborted, submitted, calls, domvars>>

\* get_instance, lines 54-56: both singletons are constructed at the first
\* call, with the pool_size of that call
InitPool ==
    /\ AuxUnused
    /\ bx = [pool_id |-> LOW_LEVEL_POOL_ID, elements_count |-> 0,
             pool_size |-> 1, pc |-> "unused", fut |-> <<>>]
    /\ \E size \in 1..MaxWorkers : pool_size = [p \in PoolID |-> size]
    /\ task = <<>>
    /\ queue = [p \in PoolID |-> <<>>]
    /\ running = [p \in PoolID |-> {}]
    /\ frame = [c \in {MAIN} |-> IdleFrame]
    /\ aborted = FALSE
    /\ submitted = {}
    /\ calls = 0
    /\ DomainUnused

NextPool ==
    \/ MainCall
    \/ \E p \in PoolID : TakeLeaf(p)
    \/ \E p \in PoolID : TakeFan(p)
    \/ \E c \in DOMAIN frame : WaitForAll(c)

SpecPool == InitPool /\ [][NextPool]_vars

(***************************************************************************)
(* Properties of block_execution.                                          *)
(***************************************************************************)
RECURSIVE SumLengths(_)
SumLengths(fut) ==
    IF fut = <<>> THEN 0
    ELSE (Head(fut).end - Head(fut).begin) + SumLengths(Tail(fut))

\* the number of posted ranges that hold index i
Covering(fut, i) ==
    Cardinality({j \in 1..Len(fut) : fut[j].begin <= i /\ i < fut[j].end})

Contiguous(fut, n) ==
    /\ \A j \in 1..Len(fut) : fut[j].begin <= fut[j].end
    /\ \A j \in 1..(Len(fut) - 1) : fut[j].end = fut[j + 1].begin
    /\ fut # <<>> => fut[1].begin = 0 /\ fut[Len(fut)].end = n
    /\ fut = <<>> => n = 0

PairwiseDisjoint(fut) ==
    \A j, k \in 1..Len(fut) :
        j < k => fut[j].end <= fut[k].begin \/ fut[k].end <= fut[j].begin

\* the indices checked one by one: all of them for the small counts, and for
\* the large ones those next to a multiple of the chunk length
ProbeIndices(fut, n) ==
    IF n <= MaxElements + 1 THEN 0..(n - 1)
    ELSE {i \in UNION {{fut[j].begin - 1, fut[j].begin, fut[j].end - 1, fut[j].end}
                          : j \in 1..Len(fut)} : TRUE}

\* C1: the ranges of the tasks block_execution posts are contiguous, pairwise
\* disjoint and cover [0, elements_count) exactly: no index is missing, none
\* is covered twice, and the chunk lengths sum to elements_count; for every
\* elements_count >= 0, every pool_size >= 1 and either pool.
C1_Partition ==
    bx.pc # "call" =>
        /\ Contiguous(bx.fut, bx.elements_count)
        /\ PairwiseDisjoint(bx.fut)
        /\ SumLengths(bx.fut) = bx.elements_count
        /\ \A i \in ProbeIndices(bx.fut, bx.elements_count) :
              Covering(bx.fut, i) =
                 (IF 0 <= i /\ i < bx.elements_count THEN 1 ELSE 0)

\* a Low-pool call above the floor that posts several chunks, the last one
\* taking a remainder
C1_Witness ==
    /\ bx.pc = "returned"
    /\ bx.pool_id = LOW_LEVEL_POOL_ID
    /\ Len(bx.fut) >= 2
    /\ bx.elements_count % Len(bx.fut) # 0

(***************************************************************************)
(* Properties of the parallel helpers.                                     *)
(***************************************************************************)
\* the number of times func was called with index i by the tasks of the main
\* thread's call
CallCount(i) ==
    Cardinality({t \in Children(MAIN) : task[t].lo <= i /\ i < task[t].hi})

\* the indices looked at: around the range for the small counts, and next to
\* the chunk borders for the large one
MainProbe ==
    LET f == frame[MAIN]
    IN  IF f.n <= MaxMain + 1 THEN (f.start - 1)..(f.start + f.n)
        ELSE UNION {{task[t].lo - 1, task[t].lo, task[t].hi - 1, task[t].hi}
                       : t \in Children(MAIN)}
             \cup {f.start - 1, f.start, f.start + f.n - 1, f.start + f.n}

\* func is a plain function: no task of the main thread's call made a call
\* of its own or threw
PlainFunc ==
    /\ calls = 0
    /\ \A t \in Children(MAIN) : ~task[t].threw

\* the part of C2 about the indices: once the call has returned, func was
\* called once for every index of [start, end) and for no other
ExactlyOnce ==
    LET f == frame[MAIN]
    IN  f.pc = "returned" =>
           \A i \in MainProbe :
              CallCount(i) = (IF f.start <= i /\ i < f.start + f.n THEN 1 ELSE 0)

\* C2: parallel_for(start, end, f) on the default Low pool returns, having
\* called f(i) exactly once for every i in [start, end) and for no other
\* index, for every range length from 0 upwards and every pool size.
C2_ParallelFor ==
    (frame[MAIN].pool = LOW_LEVEL_POOL_ID /\ PlainFunc) =>
        /\ frame[MAIN].pc # "aborted"
        /\ ExactlyOnce

\* the caller c leaves parallel_for in this step
Returns(c) ==
    /\ frame[c].pc = "waiting"
    /\ c \notin DOMAIN frame' \/ frame'[c].pc = "returned"

\* C3: parallel_for never returns to its caller while a task it dispatched is
\* still queued or running: at the moment of return every task of the batch
\* has completed, also when chunk functions threw.
C3_ForkJoin ==
    [][\A c \in DOMAIN frame :
          Returns(c) =>
             \A j \in 1..Len(frame[c].futs) :
                task[frame[c].futs[j]].status = "ready"]_vars

\* the main thread's call has returned from a batch of several tasks, the
\* first of which threw while the next ran its whole range
C3_Witness ==
    /\ frame[MAIN].pc = "returned"
    /\ Len(frame[MAIN].futs) >= 2
    /\ task[<<1>>].threw
    /\ ~task[<<2>>].threw /\ task[<<2>>].lo < task[<<2>>].hi

\* every posted task has run and the main thread's call has returned
Done ==
    /\ frame[MAIN].pc = "returned"
    /\ \A t \in DOMAIN task : task[t].status = "ready"

\* the intended hierarchy: High-pool tasks fan out into the Low pool, and
\* Low-pool tasks submit no work
Hierarchy ==
    submitted \subseteq
        {<<"main", p>> : p \in PoolID} \cup {<<HIGH_LEVEL_POOL_ID, LOW_LEVEL_POOL_ID>>}

\* C4: in the intended hierarchy, with at least one worker per pool, every
\* posted task is eventually executed and every waiting caller eventually
\* returns: the system never stops before that.
C4_Progress ==
    Hierarchy => (Done \/ ENABLED NextPool)

\* the rule as the specification words it: no Low-pool task submits to the Low
\* pool; Low-pool tasks submit into the High pool, High-pool tasks into the
\* Low pool
Rule ==
    submitted \subseteq
        {<<"main", p>> : p \in PoolID}
          \cup {<<HIGH_LEVEL_POOL_ID, LOW_LEVEL_POOL_ID>>,
                <<LOW_LEVEL_POOL_ID, HIGH_LEVEL_POOL_ID>>}

\* no call in progress was made with an empty range on the Low pool, where
\* block_execution's division is undefined
DefinedCalls ==
    \A c \in DOMAIN frame :
        ~(frame[c].pool = LOW_LEVEL_POOL_ID /\ frame[c].n = 0)

\* C5 as stated: under the rule no reachable state is a deadlock, in which
\* the workers are blocked waiting on futures whose tasks cannot run
\* while a fork-join call has not returned.
C5_RuleSufficient ==
    (Rule /\ DefinedCalls) => (Done \/ aborted \/ ENABLED NextPool)

\* C5 as amended: when the tasks of the Low pool submit no work at all and
\* the tasks of the High pool submit only into the Low pool, the system stops
\* only with every fork-join call returned, or aborted by the division by
\* zero of block_execution.
C5_HierarchySufficient ==
    Hierarchy => (Done \/ aborted \/ ENABLED NextPool)

\* every worker of a High pool of several threads is blocked in wait_for_all
\* on a future of the Low pool whose task is still queued
C5_Witness ==
    /\ Hierarchy
    /\ ~aborted
    /\ pool_size[HIGH_LEVEL_POOL_ID] >= 2
    /\ Cardinality(running[HIGH_LEVEL_POOL_ID]) = pool_size[HIGH_LEVEL_POOL_ID]
    /\ \A t \in running[HIGH_LEVEL_POOL_ID] :
          /\ frame[t].pool = LOW_LEVEL_POOL_ID
          /\ task[frame[t].futs[frame[t].k]].status = "queued"

\* C6: an exception thrown by a chunk function is re-raised on the calling
\* thread by wait_for_all: parallel_for does not return normally from a batch
\* in which a task threw.
C6_ErrorSurfaces ==
    frame[MAIN].pc = "returned" => \A t \in Children(MAIN) : ~task[t].threw


(***************************************************************************)
(* geometric_sequence_domain: the evaluation domain 1, g, g^2, ...,        *)
(* g^(m-1) over the scalar field.  The field is the prime field of         *)
(* FieldModulus elements.  Vectors are functions on 0 .. size-1, so that   *)
(* indices are the indices of the source.                                  *)
(***************************************************************************)

FieldModulus == 5
FieldValues == 0..(FieldModulus - 1)

FAdd(x, y) == (x + y) % FieldModulus
FSub(x, y) == (x - y + FieldModulus) % FieldModulus
FMul(x, y) == (x * y) % FieldModulus
FNeg(x) == (FieldModulus - x) % FieldModulus
\* inversed() of a non-zero value
inversed(x) == CHOOSE y \in FieldValues : FMul(x, y) = 1

Size(v) == Cardinality(DOMAIN v)
\* std::vector::resize(n, zero)
resize(v, n) == [i \in 0..(n - 1) |-> IF i \in DOMAIN v THEN v[i] ELSE 0]
Vectors(n) == [0..(n - 1) -> FieldValues]

geometric_sequence_of(m, g) ==
    LET gs[i \in 0..(m - 1)] == IF i = 0 THEN 1 ELSE FMul(gs[i - 1], g)
    IN  gs

geometric_triangular_sequence_of(m, g) ==
    LET gs == geometric_sequence_of(m, g)
        gts[i \in 0..(m - 1)] == IF i = 0 THEN 1 ELSE FMul(gts[i - 1], gs[i - 1])
    IN  gts

do_precomputation(d, g) ==
    [d EXCEPT !.geometric_sequence = geometric_sequence_of(d.m, g),
              !.geometric_triangular_sequence = geometric_triangular_sequence_of(d.m, g),
              !.precomputation_sentinel = TRUE,
              !.precomputations = d.precomputations + 1]

precomputed_mut(d, g) == do_precomputation(d, g)

\* if (!precomputation_sentinel) do_precomputation();
precomputed(d, g) == IF d.precomputation_sentinel THEN d ELSE do_precomputation(d, g)

\* the object the constructor leaves, for m > 1 and a non-zero generator;
\* precomputations is history: the number of runs of do_precomputation
geometric_sequence_domain(m) ==
    [m |-> m, precomputation_sentinel |-> FALSE,
     geometric_sequence |-> <<>>, geometric_triangular_sequence |-> <<>>,
     precomputations |-> 0]

(***************************************************************************)
(* The polynomial primitives the domain calls.  Their code is outside the  *)
(* modelled sources; they are written from their description: the product  *)
(* of two polynomials, and the change between the monomial basis and the   *)
(* Newton basis 1, (x - 1), (x - 1)(x - g), ... of the domain's points.    *)
(***************************************************************************)

\* c = a * b as polynomials
multiplication(va, vb) ==
    LET term(k, i) == IF i \in DOMAIN va /\ (k - i) \in DOMAIN vb
                      THEN FMul(va[i], vb[k - i]) ELSE 0
        coef(k) == LET S[i \in (-1)..k] == IF i = -1 THEN 0 ELSE FAdd(S[i - 1], term(k, i))
                   IN  S[k]
    IN  [k \in 0..(Size(va) + Size(vb) - 2) |-> coef(k)]

\* the quotient and the remainder of p by (x - r), by synthetic division
divide_linear(p, r) ==
    LET d == Size(p) - 1
        B[j \in 0..d] == IF j = d THEN p[d] ELSE FAdd(p[j], FMul(r, B[j + 1]))
    IN  [quotient |-> [j \in 0..(d - 1) |-> B[j + 1]], remainder |-> B[0]]

\* p * (x - r) + c
times_linear_plus(p, r, c) ==
    LET n == Size(p)
        low(j) == IF j < n THEN FMul(FNeg(r), p[j]) ELSE 0
        high(j) == IF j >= 1 THEN p[j - 1] ELSE 0
    IN  [j \in 0..n |-> FAdd(FAdd(high(j), low(j)), IF j = 0 THEN c ELSE 0)]

RECURSIVE quotient_after(_, _, _)
\* p divided by (x - gs[0]) ... (x - gs[k-1])
quotient_after(p, gs, k) ==
    IF k = 0 THEN p ELSE divide_linear(quotient_after(p, gs, k - 1), gs[k - 1]).quotient

monomial_to_newton_basis_geometric(va, gs, gts, m) ==
    [k \in 0..(m - 1) |-> divide_linear(quotient_after(va, gs, k), gs[k]).remainder]

RECURSIVE newton_tail(_, _, _, _)
\* c[k] + (x - gs[k]) * (c[k+1] + (x - gs[k+1]) * ( ... ))
newton_tail(c, gs, k, m) ==
    IF k = m - 1 THEN [j \in 0..0 |-> c[k]]
    ELSE times_linear_plus(newton_tail(c, gs, k + 1, m), gs[k], c[k])

newton_to_monomial_basis_geometric(va, gs, gts, m) == newton_tail(va, gs, 0, m)

(***************************************************************************)
(* fft and inverse_fft                                                     *)
(***************************************************************************)

\* the size check both transforms start with: a short buffer is padded
\* with zeros, a long one is refused
size_ok_mut(va, m) == Size(va) <= m + 1

size_ok(va, m) == Size(va) <= m
padded(va, m) == IF Size(va) # m THEN resize(va, m) ELSE va

fft_T_mut(gs, m) ==
    LET T[i \in 0..(m - 1)] == IF i = 0 THEN 1 ELSE FMul(T[i - 1], inversed(gs[i]))
    IN  T

\* T[0] = 1, T[i] = T[i-1] * (geometric_sequence[i] - 1)^-1
fft_T(gs, m) ==
    LET T[i \in 0..(m - 1)] == IF i = 0 THEN 1 ELSE FMul(T[i - 1], inversed(FSub(gs[i], 1)))
    IN  T

\* g[0] = a[0], g[i] = geometric_triangular_sequence[i] * a[i]
fft_g(va, gts, m) == [i \in 0..(m - 1) |-> IF i = 0 THEN va[0] ELSE FMul(gts[i], va[i])]

fft(d, gen, va) ==
    IF ~size_ok(va, d.m) THEN [threw |-> TRUE, a |-> va, domain |-> d]
    ELSE LET m == d.m
             dd == precomputed(d, gen)
             gs == dd.geometric_sequence
             gts == dd.geometric_triangular_sequence
             newton == monomial_to_newton_basis_geometric(padded(va, m), gs, gts, m)
             T == fft_T(gs, m)
             prod == resize(multiplication(fft_g(newton, gts, m), T), m)
         IN  [threw |-> FALSE,
              a |-> [i \in 0..(m - 1) |-> FMul(prod[i], inversed(T[i]))],
              domain |-> dd]

\* prev_T after iteration i: prev_T *= (geometric_sequence[i] - 1)^-1
inverse_fft_prev_T(gs, m) ==
    LET prev_T[i \in 0..(m - 1)] ==
            IF i = 0 THEN 1 ELSE FMul(prev_T[i - 1], inversed(FSub(gs[i], 1)))
    IN  prev_T

\* W[i] = a[i] * prev_T
inverse_fft_W(va, gs, m) == [i \in 0..(m - 1) |-> FMul(va[i], inverse_fft_prev_T(gs, m)[i])]

inverse_fft_T_mut(gs, gts, m) ==
    [i \in 0..(m - 1) |-> FMul(gts[i], inverse_fft_prev_T(gs, m)[i])]

\* T[i] = geometric_triangular_sequence[i] * prev_T, negated for odd i
inverse_fft_T(gs, gts, m) ==
    [i \in 0..(m - 1) |->
        LET Ti == FMul(gts[i], inverse_fft_prev_T(gs, m)[i])
        IN  IF i % 2 = 1 THEN FNeg(Ti) ELSE Ti]

inverse_fft(d, gen, va) ==
    IF ~size_ok(va, d.m) THEN [threw |-> TRUE, a |-> va, domain |-> d]
    ELSE LET m == d.m
             dd == precomputed(d, gen)
             gs == dd.geometric_sequence
             gts == dd.geometric_triangular_sequence
             pa == padded(va, m)
             prod == resize(multiplication(inverse_fft_W(pa, gs, m), inverse_fft_T(gs, gts, m)), m)
             newton == [i \in 0..(m - 1) |-> FMul(prod[i], inversed(gts[i]))]
         IN  [threw |-> FALSE,
              a |-> newton_to_monomial_basis_geometric(newton, gs, gts, m),
              domain |-> dd]

\* the values fft calls inversed() on: geometric_sequence[i] - 1 for
\* 1 <= i < m, then every T[i]
fft_inverted(gs, m) ==
    LET first == {FSub(gs[i], 1) : i \in 1..(m - 1)}
    IN  IF 0 \in first THEN first
        ELSE first \cup {fft_T(gs, m)[i] : i \in 0..(m - 1)}

\* the values inverse_fft calls inversed() on: geometric_sequence[i] - 1
\* for 1 <= i < m, then every geometric_triangular_sequence[i]
inverse_fft_inverted(gs, gts, m) ==
    {FSub(gs[i], 1) : i \in 1..(m - 1)} \cup {gts[i] : i \in 0..(m - 1)}

(***************************************************************************)
(* evaluate_all_lagrange_polynomials(t) and get_domain_element(idx)        *)
(***************************************************************************)

\* the indices at which the exact-hit loop finds t
hits(gs, m, t) == {i \in 0..(m - 1) : gs[i] = t}

\* the loop returns at the first index whose element equals t
first_hit(gs, m, t) == CHOOSE i \in hits(gs, m, t) : \A j \in hits(gs, m, t) : i <= j

unit_vector_mut(m, i) == [j \in 0..(m - 1) |-> IF j = 0 THEN 1 ELSE 0]

\* res is zero everywhere but res[i] = 1
unit_vector(m, i) == [j \in 0..(m - 1) |-> IF j = i THEN 1 ELSE 0]

\* the product of v[lo], ..., v[hi]
product(v, lo, hi) ==
    LET Pr[i \in (lo - 1)..hi] == IF i = lo - 1 THEN 1 ELSE FMul(Pr[i - 1], v[i])
    IN  Pr[hi]

lagrange_g_i_mut(g, gs, g_vanish, m) ==
    LET g_i[i \in 0..(m - 1)] ==
            IF i = 0 THEN inversed(g_vanish)
            ELSE FMul(FMul(FMul(g_i[i - 1], g[m - i]), inversed(g[i])), gs[i])
    IN  g_i

\* g_i[0] = g_vanish^-1,
\* g_i[i] = g_i[i-1] * g[m-i] * -g[i]^-1 * geometric_sequence[i]
lagrange_g_i(g, gs, g_vanish, m) ==
    LET g_i[i \in 0..(m - 1)] ==
            IF i = 0 THEN inversed(g_vanish)
            ELSE FMul(FMul(FMul(g_i[i - 1], g[m - i]), FNeg(inversed(g[i]))), gs[i])
    IN  g_i

\* the general case, for t off the sequence
lagrange_general(gs, m, t) ==
    LET l0 == [i \in 0..(m - 1) |-> FSub(t, gs[i])]
        g == [i \in 0..(m - 1) |-> IF i = 0 THEN 0 ELSE FSub(1, gs[i])]
        l_vanish == product(l0, 0, m - 1)
        g_vanish == product(g, 1, m - 1)
        r == inversed(gs[m - 1])
        \* r_i in iteration i is r^i
        r_i[i \in 1..(m - 1)] == IF i = 1 THEN r ELSE FMul(r_i[i - 1], r)
        g_i == lagrange_g_i(g, gs, g_vanish, m)
    IN  [i \in 0..(m - 1) |->
            IF i = 0 THEN FMul(FMul(l_vanish, inversed(l0[0])), g_i[0])
            ELSE FMul(FMul(FMul(l_vanish, r_i[i]), inversed(l0[i])), g_i[i])]

\* the values the general case calls inversed() on: geometric_sequence[m-1],
\* g_vanish, every l[i] = t - geometric_sequence[i], and g[i] for 1 <= i < m
lagrange_inverted(gs, m, t) ==
    LET g == [i \in 0..(m - 1) |-> IF i = 0 THEN 0 ELSE FSub(1, gs[i])]
    IN  {gs[m - 1], product(g, 1, m - 1)}
          \cup {FSub(t, gs[i]) : i \in 0..(m - 1)}
          \cup {g[i] : i \in 1..(m - 1)}

evaluate_all_lagrange_polynomials(d, gen, t) ==
    LET dd == precomputed(d, gen)
        gs == dd.geometric_sequence
    IN  [domain |-> dd,
         res |-> IF hits(gs, d.m, t) # {}
                 THEN unit_vector(d.m, first_hit(gs, d.m, t))
                 ELSE lagrange_general(gs, d.m, t)]

get_domain_element(d, gen, idx) ==
    LET dd == precomputed(d, gen)
    IN  [domain |-> dd, res |-> dd.geometric_sequence[idx]]

(***************************************************************************)
(* The vanishing polynomial Z = (x - 1)(x - g) ... (x - g^(m-1))           *)
(***************************************************************************)

vanishing_product_mut(gs, m, t) ==
    LET Z[i \in 0..m] == IF i = 0 THEN 1 ELSE FMul(Z[i - 1], FSub(gs[i - 1], t))
    IN  Z[m]

\* Z = 1; for i < m: Z *= (t - geometric_sequence[i])
vanishing_product(gs, m, t) ==
    LET Z[i \in 0..m] == IF i = 0 THEN 1 ELSE FMul(Z[i - 1], FSub(t, gs[i - 1]))
    IN  Z[m]

compute_vanishing_polynomial(d, gen, t) ==
    LET dd == precomputed(d, gen)
    IN  [domain |-> dd, res |-> vanishing_product(dd.geometric_sequence, d.m, t)]

\* polynomial({-root, 1})
linear_factor(root) == [j \in 0..1 |-> IF j = 0 THEN FNeg(root) ELSE 1]

\* z = {1}; for i < m: z = z * {-geometric_sequence[i], 1}
vanishing_coefficients(gs, m) ==
    LET z[i \in 0..m] == IF i = 0 THEN [j \in 0..0 |-> 1]
                         ELSE multiplication(z[i - 1], linear_factor(gs[i - 1]))
    IN  z[m]

get_vanishing_polynomial(d, gen) ==
    LET dd == precomputed(d, gen)
    IN  [domain |-> dd, res |-> vanishing_coefficients(dd.geometric_sequence, d.m)]

\* x after the loop of add_poly_z, which takes one factor for each index
\* 0 .. m; index m is past the end of geometric_sequence, and past stands
\* for what that read gives
add_poly_z_x(gs, m, past) ==
    LET at(i) == IF i < m THEN gs[i] ELSE past
        x[i \in 0..m] == IF i = 0 THEN linear_factor(at(0))
                         ELSE multiplication(x[i - 1], linear_factor(at(i)))
    IN  x[m]

\* the outcomes of add_poly_z(coeff, H): the size error, or, as the read
\* past the end is undefined, a trap or the sums for any value read
add_poly_z(d, gen, coeff, H) ==
    IF Size(H) # d.m + 1
    THEN {[threw |-> TRUE, crash |-> FALSE, H |-> H, domain |-> d]}
    ELSE LET dd == precomputed(d, gen)
             sums(x) == [i \in 0..d.m |-> FAdd(H[i], FMul(x[i], coeff))]
         IN  {[threw |-> FALSE, crash |-> TRUE, H |-> H, domain |-> dd]}
               \cup {[threw |-> FALSE, crash |-> FALSE, domain |-> dd,
                      H |-> sums(add_poly_z_x(dd.geometric_sequence, d.m, past))]
                     : past \in FieldValues}

\* arithmetic_params<FieldType>::multiplicative_generator
multiplicative_generator == 2

\* Z at the coset element, which divide_by_z_on_coset inverts
Z_at_coset(d, gen) == compute_vanishing_polynomial(d, gen, multiplicative_generator).res

\* the outcomes of divide_by_z_on_coset(P): P[i] *= Z_inverse_at_coset for
\* every i < m, whatever the size of P; for a P shorter than m the writes
\* past its end are undefined: a trap, or the entries of P multiplied
divide_by_z_on_coset(d, gen, P) ==
    LET dd == precomputed(d, gen)
        Z_inverse_at_coset == inversed(Z_at_coset(d, gen))
        scaled == [i \in DOMAIN P |-> IF i < d.m THEN FMul(P[i], Z_inverse_at_coset) ELSE P[i]]
    IN  {[crash |-> FALSE, P |-> scaled, domain |-> dd]}
          \cup IF Size(P) < d.m THEN {[crash |-> TRUE, P |-> P, domain |-> dd]} ELSE {}

(***************************************************************************)
(* evaluate_all_lagrange_polynomials(t_powers_begin, t_powers_end): the    *)
(* overload that takes the powers 1, t, t^2, ... of t                      *)
(***************************************************************************)

\* geometric_sequence[i] * t_powers_begin[0] == t_powers_begin[1]
powers_hits(gs, m, t_powers) == {i \in 0..(m - 1) : FMul(gs[i], t_powers[0]) = t_powers[1]}

dot_mut(t_powers, l) ==
    LET S[j \in 0..Size(l)] ==
            IF j = 0 THEN 0 ELSE FAdd(S[j - 1], FMul(t_powers[j - 1], l[Size(l) - j]))
    IN  S[Size(l)]

\* for j < l.size(): result += t_powers_begin[j] * l[j]
dot(t_powers, l) ==
    LET S[j \in 0..Size(l)] ==
            IF j = 0 THEN 0 ELSE FAdd(S[j - 1], FMul(t_powers[j - 1], l[j - 1]))
    IN  S[Size(l)]

\* the values the general case of the overload calls inversed() on
powers_inverted(gs, m) ==
    LET g == [i \in 0..(m - 1) |-> IF i = 0 THEN 0 ELSE FSub(1, gs[i])]
    IN  {gs[m - 1], product(g, 1, m - 1)} \cup {g[i] : i \in 1..(m - 1)}

powers_general(gs, m, t_powers) ==
    LET g == [i \in 0..(m - 1) |-> IF i = 0 THEN 0 ELSE FSub(1, gs[i])]
        \* l_vanish = l[0] * l[1] * ... * l[m-1], with l[i] = {-gs[i], 1}
        l_vanish == vanishing_coefficients(gs, m)
        g_vanish == product(g, 1, m - 1)
        r == inversed(gs[m - 1])
        r_i[i \in 1..(m - 1)] == IF i = 1 THEN r ELSE FMul(r_i[i - 1], r)
        g_i == lagrange_g_i(g, gs, g_vanish, m)
        \* l[i] = l_vanish / l[i]
        l == [i \in 0..(m - 1) |-> divide_linear(l_vanish, gs[i]).quotient]
    IN  [i \in 0..(m - 1) |->
            IF i = 0 THEN FMul(dot(t_powers, l[0]), g_i[0])
            ELSE FMul(dot(t_powers, l[i]), FMul(r_i[i], g_i[i]))]

evaluate_all_lagrange_polynomials_powers(d, gen, t_powers) ==
    IF Size(t_powers) < d.m THEN [threw |-> TRUE, domain |-> d, res |-> <<>>]
    ELSE LET dd == precomputed(d, gen)
             gs == dd.geometric_sequence
             found == powers_hits(gs, d.m, t_powers)
             i0 == CHOOSE i \in found : \A j \in found : i <= j
         IN  [threw |-> FALSE, domain |-> dd,
              res |-> IF found # {}
                      THEN [j \in 0..(d.m - 1) |-> IF j = i0 THEN t_powers[0] ELSE 0]
                      ELSE powers_general(gs, d.m, t_powers)]

(***************************************************************************)
(* The domain as a state machine: one domain object of size m over a      *)
(* field whose geometric generator has m distinct powers, one buffer, and  *)
(* the methods called on them in any order.                                *)
(***************************************************************************)

\* the generators whose first m powers are pairwise distinct
ValidGenerators(m) ==
    {g \in FieldValues \ {0} :
        Cardinality({geometric_sequence_of(m, g)[i] : i \in 0..(m - 1)}) = m}

DomainSizes == {m \in 2..MaxM : ValidGenerators(m) # {}}

\* the buffers of at most m coefficients
Buffers(m) == UNION {[0..(n - 1) -> {x \in FieldValues : x <= MaxCoefficient}] : n \in 0..m}

\* the buffers of m + 1 equal values, one too long for the domain
LongBuffers(m) == {[i \in 0..m |-> c] : c \in {x \in FieldValues : x <= MaxCoefficient}}

Returned(op, arg, res, threw) == [op |-> op, arg |-> arg, res |-> res, threw |-> threw]

InitDomain ==
    /\ AuxUnused
    /\ bx = [pool_id |-> LOW_LEVEL_POOL_ID, elements_count |-> 0,
             pool_size |-> 1, pc |-> "unused", fut |-> <<>>]
    /\ PoolUnused
    /\ \E m \in DomainSizes :
         /\ geometric_generator \in ValidGenerators(m)
         /\ domain = geometric_sequence_domain(m)
         /\ buffer \in Buffers(m) \cup LongBuffers(m)
    /\ buffer0 = buffer
    /\ hist = <<>>
    /\ out = Returned("none", 0, <<>>, FALSE)
    /\ inverted_zero = FALSE

\* the constructor has returned the object
Constructed == "precomputation_sentinel" \in DOMAIN domain

\* the object can be called: it exists and the process has not trapped
Callable == Constructed /\ ~aborted

\* the sequences the call works with, filled at its start if need be
Filled == precomputed(domain, geometric_generator)

\* a call that inverts zero after the precomputation: the inverse of zero
\* is outside the contract of the field, so no result is modelled
Faulted(name, arg) ==
    /\ domain' = Filled
    /\ out' = Returned(name, arg, <<>>, FALSE)
    /\ inverted_zero' = TRUE

Transform(name, r) ==
    /\ Len(hist) < MaxOps
    /\ IF r.threw
       THEN UNCHANGED <<buffer, domain, hist>>
       ELSE /\ buffer' = r.a
            /\ domain' = r.domain
            /\ hist' = Append(hist, name)
    /\ out' = Returned(name, 0, <<>>, r.threw)
    /\ inverted_zero' = FALSE
    /\ UNCHANGED <<bx, auxvars, poolvars, geometric_generator, buffer0>>

fft_faults(va) ==
    /\ size_ok(va, domain.m)
    /\ 0 \in fft_inverted(Filled.geometric_sequence, domain.m)

inverse_fft_faults(va) ==
    /\ size_ok(va, domain.m)
    /\ 0 \in inverse_fft_inverted(Filled.geometric_sequence,
                                   Filled.geometric_triangular_sequence, domain.m)

Fft ==
    /\ Callable
    /\ IF fft_faults(buffer)
       THEN /\ Len(hist) < MaxOps
            /\ Faulted("fft", 0)
            /\ UNCHANGED <<bx, auxvars, poolvars, geometric_generator, buffer, buffer0, hist>>
       ELSE Transform("fft", fft(domain, geometric_generator, buffer))

InverseFft ==
    /\ Callable
    /\ IF inverse_fft_faults(buffer)
       THEN /\ Len(hist) < MaxOps
            /\ Faulted("inverse_fft", 0)
            /\ UNCHANGED <<bx, auxvars, poolvars, geometric_generator, buffer, buffer0, hist>>
       ELSE Transform("inverse_fft", inverse_fft(domain, geometric_generator, buffer))

lagrange_faults(t) ==
    /\ hits(Filled.geometric_sequence, domain.m, t) = {}
    /\ 0 \in lagrange_inverted(Filled.geometric_sequence, domain.m, t)

EvaluateAllLagrangePolynomials ==
    /\ Callable
    /\ \E t \in FieldValues :
        IF lagrange_faults(t)
        THEN Faulted("evaluate_all_lagrange_polynomials", t)
        ELSE LET r == evaluate_all_lagrange_polynomials(domain, geometric_generator, t)
             IN  /\ domain' = r.domain
                 /\ out' = Returned("evaluate_all_lagrange_polynomials", t, r.res, FALSE)
                 /\ inverted_zero' = FALSE
    /\ UNCHANGED <<bx, auxvars, poolvars, geometric_generator, buffer, buffer0, hist>>

GetDomainElement ==
    /\ Callable
    /\ \E idx \in 0..(domain.m - 1) :
        LET r == get_domain_element(domain, geometric_generator, idx)
        IN  /\ domain' = r.domain
            /\ out' = Returned("get_domain_element", idx, r.res, FALSE)
            /\ inverted_zero' = FALSE
    /\ UNCHANGED <<bx, auxvars, poolvars, geometric_generator, buffer, buffer0, hist>>

NextDomain ==
    \/ Fft
    \/ InverseFft
    \/ EvaluateAllLagrangePolynomials
    \/ GetDomainElement

SpecDomain == InitDomain /\ [][NextDomain]_vars

(***************************************************************************)
(* Properties of the domain                                                *)
(***************************************************************************)

\* g^i, by repeated multiplication
RECURSIVE Power(_, _)
Power(g, i) == IF i = 0 THEN 1 ELSE FMul(Power(g, i - 1), g)

\* the value at x of the polynomial with coefficient vector v
Evaluate(v, x) ==
    LET n == Size(v)
        H[j \in 0..n] == IF j = n THEN 0 ELSE FAdd(v[j], FMul(x, H[j + 1]))
    IN  H[0]

\* C7: on a buffer of exactly m values, fft followed by inverse_fft, and
\* inverse_fft followed by fft, give the buffer back.
C7_RoundTrip ==
    (/\ Size(buffer0) = domain.m
     /\ hist \in {<<"fft", "inverse_fft">>, <<"inverse_fft", "fft">>})
    => buffer = buffer0

C7_Witness ==
    /\ Size(buffer0) = domain.m
    /\ domain.m = MaxM
    /\ hist = <<"fft", "inverse_fft">>
    /\ buffer0[domain.m - 1] # 0
    /\ buffer = buffer0

DomainElements == {Power(geometric_generator, i) : i \in 0..(domain.m - 1)}

LagrangeReturned == out.op = "evaluate_all_lagrange_polynomials"

LagrangeBasis(i, t) ==
    LET m == domain.m
        x(j) == Power(geometric_generator, j)
        Pr[j \in (-1)..(m - 1)] ==
            IF j = -1 THEN 1
            ELSE IF j = i THEN Pr[j - 1]
            ELSE FMul(Pr[j - 1], FMul(FSub(t, x(j)), inversed(FSub(x(i), x(j)))))
    IN  Pr[m - 1]

\* the sum over i of P(g^i) * L[i], for the polynomial P with coefficients v
Interpolated(v, L) ==
    LET m == domain.m
        S[i \in (-1)..(m - 1)] ==
            IF i = -1 THEN 0
            ELSE FAdd(S[i - 1], FMul(Evaluate(v, Power(geometric_generator, i)), L[i]))
    IN  S[m - 1]

\* C10: for t outside the domain the returned vector L has
\* L[i] = prod over j # i of (t - g^j) / (g^i - g^j), and so the sum of
\* P(g^i) * L[i] is P(t) for every polynomial P of degree below m.
C10_LagrangeInterpolates ==
    (LagrangeReturned /\ out.arg \notin DomainElements)
    => /\ Size(out.res) = domain.m
       /\ \A i \in 0..(domain.m - 1) : out.res[i] = LagrangeBasis(i, out.arg)
       /\ Size(buffer0) <= domain.m
            => Interpolated(buffer0, out.res) = Evaluate(buffer0, out.arg)

C10_Witness ==
    /\ LagrangeReturned
    /\ out.arg \notin DomainElements
    /\ domain.m = MaxM
    /\ hist = <<>>
    /\ Size(buffer0) = domain.m
    /\ buffer0[domain.m - 1] # 0
    /\ \E i \in 0..(domain.m - 1) : out.res[i] \notin {0, 1}
    /\ Evaluate(buffer0, out.arg) # 0

(***************************************************************************)
(* The domain under any calls: the constructor is called with any size    *)
(* and any generator, and the methods are then called in any order.  A    *)
(* method that takes a vector is handed a copy of buffer, and the vector   *)
(* as the call leaves it is recorded in out.res.                           *)
(***************************************************************************)

constructor_throws_mut(m, g) == m <= 1

\* if (m <= 1) throw ...; if (geometric_generator.is_zero()) throw ...
constructor_throws(m, g) == m <= 1 \/ g = 0

\* one vector of each length up to m + 2
CallBuffers(m) == {[i \in 0..(n - 1) |-> FAdd(i, 1)] : n \in 0..(m + 2)}

InitCalls ==
    /\ AuxUnused
    /\ bx = [pool_id |-> LOW_LEVEL_POOL_ID, elements_count |-> 0,
             pool_size |-> 1, pc |-> "unused", fut |-> <<>>]
    /\ PoolUnused
    /\ geometric_generator \in FieldValues
    /\ \E m \in 0..MaxM :
         /\ domain = [m |-> m]
         /\ buffer \in CallBuffers(m)
    /\ buffer0 = buffer
    /\ hist = <<>>
    /\ out = Returned("none", 0, <<>>, FALSE)
    /\ inverted_zero = FALSE

Construct ==
    /\ ~Constructed
    /\ out.op = "none"
    /\ IF constructor_throws(domain.m, geometric_generator)
       THEN /\ out' = Returned("geometric_sequence_domain", domain.m, <<>>, TRUE)
            /\ UNCHANGED domain
       ELSE /\ out' = Returned("geometric_sequence_domain", domain.m, <<>>, FALSE)
            /\ domain' = geometric_sequence_domain(domain.m)
    /\ inverted_zero' = FALSE
    /\ UNCHANGED <<bx, auxvars, poolvars, geometric_generator, buffer, buffer0, hist>>

\* what no call on the domain changes
CallFrame ==
    UNCHANGED <<bx, auxvars, pool_size, task, queue, running, frame, submitted, calls,
                geometric_generator, buffer, buffer0, hist>>

ComputeVanishingPolynomial ==
    /\ Callable
    /\ \E t \in FieldValues :
        LET r == compute_vanishing_polynomial(domain, geometric_generator, t)
        IN  /\ domain' = r.domain
            /\ out' = Returned("compute_vanishing_polynomial", t, r.res, FALSE)
    /\ inverted_zero' = FALSE
    /\ UNCHANGED aborted
    /\ CallFrame

GetVanishingPolynomial ==
    /\ Callable
    /\ LET r == get_vanishing_polynomial(domain, geometric_generator)
       IN  /\ domain' = r.domain
           /\ out' = Returned("get_vanishing_polynomial", 0, r.res, FALSE)
    /\ inverted_zero' = FALSE
    /\ UNCHANGED aborted
    /\ CallFrame

\* the powers t^0, ..., t^(n-1)
PowersOf(t, n) == [j \in 0..(n - 1) |-> Power(t, j)]

powers_faults(t_powers) ==
    /\ Size(t_powers) >= domain.m
    /\ powers_hits(Filled.geometric_sequence, domain.m, t_powers) = {}
    /\ 0 \in powers_inverted(Filled.geometric_sequence, domain.m)

EvaluateAllLagrangePolynomialsPowers ==
    /\ Callable
    /\ \E t \in FieldValues, n \in (domain.m - 1)..(domain.m + 1) :
        LET t_powers == PowersOf(t, n)
            name == "evaluate_all_lagrange_polynomials_powers"
        IN  IF powers_faults(t_powers)
            THEN Faulted(name, t_powers)
            ELSE LET r == evaluate_all_lagrange_polynomials_powers(
                              domain, geometric_generator, t_powers)
                 IN  /\ domain' = r.domain
                     /\ out' = Returned(name, t_powers, r.res, r.threw)
                     /\ inverted_zero' = FALSE
    /\ UNCHANGED aborted
    /\ CallFrame

\* a transform of a copy of buffer
TransformCopy(name, r) ==
    /\ domain' = r.domain
    /\ out' = Returned(name, 0, r.a, r.threw)
    /\ inverted_zero' = FALSE

FftCopy ==
    /\ Callable
    /\ IF fft_faults(buffer) THEN Faulted("fft", 0)
       ELSE TransformCopy("fft", fft(domain, geometric_generator, buffer))
    /\ UNCHANGED aborted
    /\ CallFrame

InverseFftCopy ==
    /\ Callable
    /\ IF inverse_fft_faults(buffer) THEN Faulted("inverse_fft", 0)
       ELSE TransformCopy("inverse_fft", inverse_fft(domain, geometric_generator, buffer))
    /\ UNCHANGED aborted
    /\ CallFrame

AddPolyZ ==
    /\ Callable
    /\ \E coeff \in FieldValues :
        \E o \in add_poly_z(domain, geometric_generator, coeff, buffer) :
            /\ domain' = o.domain
            /\ out' = Returned("add_poly_z", coeff, o.H, o.threw)
            /\ aborted' = o.crash
    /\ inverted_zero' = FALSE
    /\ CallFrame

DivideByZOnCoset ==
    /\ Callable
    /\ IF Z_at_coset(domain, geometric_generator) = 0
       THEN Faulted("divide_by_z_on_coset", 0) /\ UNCHANGED aborted
       ELSE \E o \in divide_by_z_on_coset(domain, geometric_generator, buffer) :
                /\ domain' = o.domain
                /\ out' = Returned("divide_by_z_on_coset", 0, o.P, FALSE)
                /\ aborted' = o.crash
                /\ inverted_zero' = FALSE
    /\ CallFrame

NextCalls ==
    \/ Construct
    \/ FftCopy
    \/ InverseFftCopy
    \/ EvaluateAllLagrangePolynomials
    \/ EvaluateAllLagrangePolynomialsPowers
    \/ GetDomainElement
    \/ ComputeVanishingPolynomial
    \/ GetVanishingPolynomial
    \/ AddPolyZ
    \/ DivideByZOnCoset

SpecCalls == InitCalls /\ [][NextCalls]_vars

(***************************************************************************)
(* Properties of the domain under any calls                                *)
(***************************************************************************)

\* C11: on a domain the constructor accepted,
\* evaluate_all_lagrange_polynomials(t) never calls inversed() on zero.
C11_NoZeroInverse == LagrangeReturned => ~inverted_zero

\* the elements of the domain, as the product formula names them
Elements == {Power(geometric_generator, i) : i \in 0..(domain.m - 1)}

\* the product over i < m of (t - g^i)
VanishingAt(t) ==
    LET Pr[i \in 0..domain.m] ==
            IF i = 0 THEN 1 ELSE FMul(Pr[i - 1], FSub(t, Power(geometric_generator, i - 1)))
    IN  Pr[domain.m]

\* C12: compute_vanishing_polynomial(t) returns the product over i < m of
\* (t - g^i): zero at t = get_domain_element(i) for every i < m, and
\* non-zero at every other t.
C12_VanishingPolynomial ==
    out.op = "compute_vanishing_polynomial" =>
        /\ out.res = VanishingAt(out.arg)
        /\ \A i \in 0..(domain.m - 1) :
              out.arg = get_domain_element(domain, geometric_generator, i).res
                  => out.res = 0
        /\ out.arg \notin Elements => out.res # 0

C12_Witness ==
    /\ out.op = "compute_vanishing_polynomial"
    /\ domain.m = MaxM
    /\ Cardinality(Elements) = domain.m
    /\ out.arg \notin Elements
    /\ out.res \notin {0, 1}

\* the product of g^j over j < i
TriangularPower(i) ==
    LET Pr[k \in 0..i] ==
            IF k = 0 THEN 1 ELSE FMul(Pr[k - 1], Power(geometric_generator, k - 1))
    IN  Pr[i]

\* C13: after any calls, failing ones included, the sentinel is false and
\* both sequences are empty, or it is true and both have length m with
\* geometric_sequence[i] = g^i and geometric_triangular_sequence[i] the
\* product of g^j over j < i; do_precomputation has run at most once.
C13_LazyPrecomputation ==
    Constructed =>
        /\ domain.precomputations <= 1
        /\ IF domain.precomputation_sentinel
           THEN /\ Size(domain.geometric_sequence) = domain.m
                /\ Size(domain.geometric_triangular_sequence) = domain.m
                /\ \A i \in 0..(domain.m - 1) :
                      /\ domain.geometric_sequence[i] = Power(geometric_generator, i)
                      /\ domain.geometric_triangular_sequence[i] = TriangularPower(i)
           ELSE /\ Size(domain.geometric_sequence) = 0
                /\ Size(domain.geometric_triangular_sequence) = 0
                /\ domain.precomputations = 0

C13_Witness ==
    /\ Constructed
    /\ domain.m = MaxM
    /\ geometric_generator \notin {0, 1}
    /\ domain.precomputation_sentinel
    /\ domain.precomputations = 1
    /\ out.op = "add_poly_z"
    /\ out.threw

\* C14: fft and inverse_fft refuse a buffer longer than m and then leave
\* the buffer and the domain as they were; a buffer of at most m values is
\* transformed as the same values followed by zeros.
C14_SizeContract ==
    [][out'.op \in {"fft", "inverse_fft"} =>
        IF Size(buffer) > domain.m
        THEN out'.threw /\ buffer' = buffer /\ domain' = domain
        ELSE /\ ~out'.threw
             /\ Size(buffer') = domain.m
             /\ \A i \in 0..(domain.m - 1) :
                   IF out'.op = "fft"
                   THEN buffer'[i] = Evaluate(buffer, Power(geometric_generator, i))
                   ELSE Evaluate(buffer', Power(geometric_generator, i))
                          = resize(buffer, domain.m)[i]]_vars

C14_Witness ==
    /\ out.op = "inverse_fft"
    /\ out.threw
    /\ Size(buffer) = domain.m + 1
    /\ ~domain.precomputation_sentinel
    /\ buffer = buffer0

\* C15: the constructor throws exactly when m <= 1 or the generator is
\* zero; otherwise it leaves a domain with precomputation_sentinel false.
C15_Constructor ==
    out.op = "geometric_sequence_domain" =>
        /\ out.threw <=> (out.arg <= 1 \/ geometric_generator = 0)
        /\ out.threw <=> ~Constructed
        /\ Constructed => (domain.m = out.arg /\ ~domain.precomputation_sentinel)

C15_Witness ==
    /\ out.op = "geometric_sequence_domain"
    /\ ~out.threw
    /\ Constructed
    /\ domain.m = 2
    /\ geometric_generator = 1

\* the m elements of the domain are pairwise distinct
Distinct == Cardinality(Elements) = domain.m

\* C16: on a domain of m distinct elements, add_poly_z(coeff, H) throws and leaves H alone when H has not
\* m + 1 entries; otherwise it returns with H[i] = H_old[i] + coeff * z[i]
\* for every i <= m, z being get_vanishing_polynomial(), and reads no
\* domain element past index m - 1.
C16_AddPolyZ ==
    (out.op = "add_poly_z" /\ Distinct) =>
        IF Size(buffer) # domain.m + 1
        THEN out.threw /\ out.res = buffer
        ELSE /\ ~out.threw
             /\ ~aborted
             /\ \A i \in 0..domain.m :
                   out.res[i] = FAdd(buffer[i],
                       FMul(out.arg, get_vanishing_polynomial(domain, geometric_generator).res[i]))

\* C17: on a domain of m distinct elements, divide_by_z_on_coset(P) throws and leaves P alone when P is longer
\* than m; when P has m entries it multiplies each by the inverse of Z at
\* the coset element.
C17_DivideByZOnCoset ==
    (out.op = "divide_by_z_on_coset" /\ Distinct /\ ~inverted_zero) =>
        /\ Size(buffer) > domain.m => (out.threw /\ out.res = buffer)
        /\ Size(buffer) = domain.m =>
              /\ ~out.threw
              /\ \A i \in 0..(domain.m - 1) :
                    out.res[i] = FMul(buffer[i], inversed(VanishingAt(multiplicative_generator)))

PowersReturned == out.op = "evaluate_all_lagrange_polynomials_powers"

\* C18: given the powers t^0 .. t^k, the overload of
\* evaluate_all_lagrange_polynomials throws when k + 1 < m, and otherwise
\* returns what evaluate_all_lagrange_polynomials(t) returns, on and off
\* the domain, and inverts zero in the same cases.
C18_PowersAgree ==
    PowersReturned =>
        /\ out.threw <=> Size(out.arg) < domain.m
        /\ ~out.threw => (inverted_zero <=> lagrange_faults(out.arg[1]))
        /\ (~out.threw /\ ~inverted_zero) =>
              out.res = evaluate_all_lagrange_polynomials(
                            domain, geometric_generator, out.arg[1]).res

C18_Witness ==
    /\ PowersReturned
    /\ ~out.threw
    /\ ~inverted_zero
    /\ domain.m = MaxM
    /\ Size(out.arg) = domain.m + 1
    /\ Distinct
    /\ out.arg[1] \notin Elements
    /\ \E i \in 0..(domain.m - 1) : out.res[i] \notin {0, 1}

(***************************************************************************)
(* The number and the sizes of the chunks of block_execution               *)
(***************************************************************************)

\* the call is on the High pool, or on the Low pool above its floor
NoFloor == ~floor_applies(bx.pool_id, bx.elements_count, bx.pool_size)

\* the posted chunks are k in number; all but the last have
\* floor(elements_count / k) elements, the last has the remainder as well
ChunksOf(k) ==
    /\ Len(bx.fut) = k
    /\ \A j \in 1..Len(bx.fut) :
          bx.fut[j].end - bx.fut[j].begin =
              IF j < Len(bx.fut) THEN bx.elements_count \div k
              ELSE (bx.elements_count \div k) + (bx.elements_count % k)

\* C19: without the floor, block_execution posts exactly
\* min(elements_count, pool_size) tasks for every elements_count >= 0, all
\* but the last of floor(n / min(n, pool_size)) elements.
C19_ChunkCount ==
    (bx.pc # "call" /\ NoFloor) =>
        /\ bx.pc = "returned"
        /\ ChunksOf(Min(bx.elements_count, bx.pool_size))

\* C19 as it holds: the number of tasks is max(1, min(elements_count,
\* pool_size)), so that elements_count = 0 posts one task with the empty
\* range [0, 0).
C19_ChunkCountAtLeastOne ==
    (bx.pc # "call" /\ NoFloor) =>
        /\ bx.pc = "returned"
        /\ ChunksOf(Max(1, Min(bx.elements_count, bx.pool_size)))

C19_Witness ==
    /\ bx.pc = "returned"
    /\ bx.pool_id = HIGH_LEVEL_POOL_ID
    /\ bx.pool_size >= 2
    /\ bx.elements_count > bx.pool_size
    /\ bx.elements_count % bx.pool_size # 0
    /\ Len(bx.fut) = bx.pool_size

\* C20: on the Low pool, for elements_count >= 1, when
\* floor(n / min(n, pool_size)) is below 65536 the call posts one chunk, or
\* chunks of at least 65536 elements each; n = 100 with pool_size = 8 posts
\* the one chunk [0, 100).
C20_LowFloor ==
    /\ block_execution(LOW_LEVEL_POOL_ID, 100, 8)
          = {[crash |-> FALSE, fut |-> <<[begin |-> 0, end |-> 100]>>]}
    /\ (/\ bx.pc # "call"
        /\ bx.pool_id = LOW_LEVEL_POOL_ID
        /\ bx.elements_count >= 1
        /\ bx.elements_count \div Min(bx.elements_count, bx.pool_size)
              < POOL_0_MIN_CHUNK_SIZE)
       => /\ bx.pc = "returned"
          /\ Len(bx.fut) >= 1
          /\ Len(bx.fut) >= 2 =>
                \A j \in 1..Len(bx.fut) :
                    bx.fut[j].end - bx.fut[j].begin >= POOL_0_MIN_CHUNK_SIZE

C20_Witness ==
    /\ bx.pc = "returned"
    /\ bx.pool_id = LOW_LEVEL_POOL_ID
    /\ bx.pool_size >= 2
    /\ bx.elements_count > POOL_0_MIN_CHUNK_SIZE
    /\ bx.elements_count \div bx.pool_size < POOL_0_MIN_CHUNK_SIZE
    /\ Len(bx.fut) = 1
    /\ bx.fut[1] = [begin |-> 0, end |-> bx.elements_count]

(***************************************************************************)
(* ThreadPool::get_instance (thread_pool.hpp, lines 54-63): the two        *)
(* function-local statics, the calls made on them and the chunking of a    *)
(* block_execution call on the object returned.                            *)
(***************************************************************************)
\* a PoolID value that is neither enumerator
OTHER_POOL_ID == "OTHER_POOL_ID"

\* the two statics of lines 55-56, by name
instance_for_low_level == "instance_for_low_level"
instance_for_higher_level == "instance_for_higher_level"

\* the statics before the first call
NotConstructed == [constructed |-> FALSE, pool_id |-> OTHER_POOL_ID, pool_size |-> 0]

\* the private constructor, lines 110-114
ThreadPool(pool_id, psize) ==
    [constructed |-> TRUE, pool_id |-> pool_id, pool_size |-> psize]

\* mutant: the static is constructed again at every call
static_init_mut(st, pool_id, psize) == ThreadPool(pool_id, psize)
\* a function-local static is initialised the first time control passes
\* through its declaration and never again
static_init(st, pool_id, psize) ==
    IF st.constructed THEN st ELSE ThreadPool(pool_id, psize)

\* lines 54-63: the statics after the call, the object returned (by the name
\* of the static) or the exception
get_instance(statics, pool_id, psize) ==
    LET after == [instance_for_low_level |->
                      static_init(statics.instance_for_low_level,
                                  LOW_LEVEL_POOL_ID, psize),
                  instance_for_higher_level |->
                      static_init(statics.instance_for_higher_level,
                                  HIGH_LEVEL_POOL_ID, psize)]
    IN  [statics |-> after,
         object |-> IF pool_id = LOW_LEVEL_POOL_ID THEN instance_for_low_level
                    ELSE IF pool_id = HIGH_LEVEL_POOL_ID THEN instance_for_higher_level
                    ELSE "",
         threw |-> pool_id \notin PoolID]

(***************************************************************************)
(* Specification SpecInstance: get_instance calls with any level and size, *)
(* in any order, each followed or not by a block_execution call on the     *)
(* object returned.                                                        *)
(***************************************************************************)
InitInstance ==
    /\ bx = [pool_id |-> LOW_LEVEL_POOL_ID, elements_count |-> 0,
             pool_size |-> 1, pc |-> "unused", fut |-> <<>>]
    /\ PoolUnused
    /\ DomainUnused
    /\ TransformUnused
    /\ BuilderUnused
    /\ ExpressionUnused
    /\ instance = [instance_for_low_level |-> NotConstructed,
                   instance_for_higher_level |-> NotConstructed]
    /\ requested = <<>>
    /\ ret = [op |-> "none"]

GetInstance ==
    /\ Len(requested) < MaxRequests
    /\ ret.op # "aborted"
    /\ \E pool_id \in PoolID \cup {OTHER_POOL_ID}, psize \in PoolSizes :
          LET r == get_instance(instance, pool_id, psize)
          IN  /\ instance' = r.statics
              /\ requested' = Append(requested,
                     [pool_id |-> pool_id, pool_size |-> psize,
                      object |-> r.object, threw |-> r.threw])
              /\ ret' = [op |-> "get_instance", object |-> r.object,
                         threw |-> r.threw]
    /\ UNCHANGED <<bx, poolvars, domvars, ptvars, buildervars, ex, nb, thread>>

\* block_execution called on the reference the last get_instance returned
BlockExecutionOn ==
    /\ ret.op = "get_instance"
    /\ ~ret.threw
    /\ \E n \in 0..MaxElements :
         \E o \in block_execution(instance[ret.object].pool_id, n,
                                  instance[ret.object].pool_size) :
            ret' = [op |-> IF o.crash THEN "aborted" ELSE "block_execution",
                    object |-> ret.object, elements_count |-> n, fut |-> o.fut]
    /\ UNCHANGED <<bx, poolvars, domvars, ptvars, buildervars, ex, nb, thread, instance, requested>>

NextInstance == GetInstance \/ BlockExecutionOn

SpecInstance == InitInstance /\ [][NextInstance]_vars

\* the calls made so far for a level, in order
RequestsFor(pool_id) ==
    SelectSeq(requested, LAMBDA q : q.pool_id = pool_id)

\* the static a level's calls return
StaticOf(pool_id) ==
    IF pool_id = LOW_LEVEL_POOL_ID THEN instance_for_low_level
    ELSE instance_for_higher_level

\* C21: Singleton stability: all get_instance calls with the same level
\* return the same object, the Low and High objects are distinct, and a
\* constructed pool keeps the pool_size of its construction whatever
\* pool_size later calls pass, so that a block_execution call is chunked by
\* the pool_size of the very first call made.
SameObject ==
    /\ \A i, j \in DOMAIN requested :
          (~requested[i].threw /\ ~requested[j].threw) =>
             (requested[i].pool_id = requested[j].pool_id
                <=> requested[i].object = requested[j].object)
    /\ \A s \in DOMAIN instance :
          instance[s].constructed =>
             instance[s].pool_size = requested[1].pool_size
    /\ ret.op = "block_execution" =>
          [crash |-> FALSE, fut |-> ret.fut]
             \in block_execution(instance[ret.object].pool_id,
                                 ret.elements_count, requested[1].pool_size)
C21_SingletonStability ==
    /\ []SameObject
    /\ [][\A s \in DOMAIN instance :
             instance[s].constructed => instance'[s] = instance[s]]_vars
C21_Witness ==
    /\ Len(requested) >= 2
    /\ requested[2].pool_size # requested[1].pool_size
    /\ requested[2].pool_id = requested[1].pool_id
    /\ ret.op = "block_execution"
    /\ ret.elements_count >= MaxPool
    /\ Len(ret.fut) = requested[1].pool_size

\* C22: Per-level lazy creation: the pool of a level exists exactly when a
\* get_instance call for that level has been made, and its pool_size is the
\* one passed in the first call for that level.
C22_PerLevelCreation ==
    \A pool_id \in PoolID :
       LET st == instance[StaticOf(pool_id)]
           rq == RequestsFor(pool_id)
       IN  /\ st.constructed <=> rq # <<>>
           /\ st.constructed => st.pool_size = rq[1].pool_size

(***************************************************************************)
(* Low-pool tasks that submit into the Low pool (SpecPool).                *)
(***************************************************************************)
\* the task c runs on a Low worker, has submitted chunks to the Low pool
\* through block_execution and waits on their futures
LowInLow(c) ==
    /\ c \in DOMAIN frame
    /\ c # MAIN
    /\ task[c].pool = LOW_LEVEL_POOL_ID
    /\ frame[c].pool = LOW_LEVEL_POOL_ID
    /\ frame[c].pc = "waiting"

\* the chunks the caller c submitted are all still queued
ChunksQueued(c) ==
    \A k \in DOMAIN frame[c].futs : task[frame[c].futs[k]].status = "queued"

\* every Low worker is blocked in such a wait, on a future whose chunk is
\* still queued
Saturated ==
    /\ Cardinality(running[LOW_LEVEL_POOL_ID]) = pool_size[LOW_LEVEL_POOL_ID]
    /\ \A t \in running[LOW_LEVEL_POOL_ID] :
          /\ LowInLow(t)
          /\ task[frame[t].futs[frame[t].k]].status = "queued"

CeilChunks(n) == (n + POOL_0_MIN_CHUNK_SIZE - 1) \div POOL_0_MIN_CHUNK_SIZE

unary_op(x) == 2 * x + 1
binary_op(x, y) == 3 * x + y + 1

\* the element written at position i, lines 56 and 77
transformed(binary, i) ==
    IF binary THEN binary_op(input.first1[i], input.first2[i])
    ELSE unary_op(input.first1[i])

\* the lambda at its start, lines 52-54 and 74-75: the iterators advanced by
\* begin; i is the loop counter and first1, d_first the positions pointed at
chunk_task(range) ==
    [begin |-> range.begin, end |-> range.end, status |-> "queued",
     i |-> range.begin, first1 |-> range.begin, d_first |-> range.begin]

\* mutant: the loop runs up to end inclusive
loop_continues_mut(t, last1) == t.i <= t.end /\ t.first1 # last1
\* the loop conditions of lines 55 and 76: i < end && first1 != last1
loop_continues(t, last1) == t.i < t.end /\ t.first1 # last1

(***************************************************************************)
(* Specification SpecTransform: one parallel_transform call, unary or      *)
(* binary, on either pool, with the chunk tasks interleaved.               *)
(***************************************************************************)
InitTransform ==
    /\ bx = [pool_id |-> LOW_LEVEL_POOL_ID, elements_count |-> 0,
             pool_size |-> 1, pc |-> "unused", fut |-> <<>>]
    /\ PoolUnused
    /\ DomainUnused
    /\ InstanceUnused
    /\ BuilderUnused
    /\ ExpressionUnused
    /\ \E n \in 0..MaxLen, pool_id \in PoolID, psize \in PoolSizes,
          binary \in BOOLEAN :
          /\ pt = [pc |-> "call", pool_id |-> pool_id, pool_size |-> psize,
                   last1 |-> n, binary |-> binary, tasks |-> <<>>, k |-> 1]
          /\ \E r1 \in [0..(n - 1) -> 0..MaxValue] :
                input = [first1 |-> r1,
                         first2 |-> [i \in 0..(n - 1) |-> (r1[i] + i) % (MaxValue + 1)]]
    /\ dest = [i \in 0..MaxLen |-> [value |-> -1, writers |-> <<>>]]

\* lines 48-49 and 70-71: get_instance, block_execution over
\* std::distance(first1, last1) elements, and its posts
TransformCall ==
    /\ pt.pc = "call"
    /\ \E o \in block_execution(pt.pool_id, pt.last1, pt.pool_size) :
          pt' = [pt EXCEPT
                   !.pc = IF o.crash THEN "aborted"
                          ELSE IF o.fut = <<>> THEN "returned" ELSE "waiting",
                   !.tasks = [j \in DOMAIN o.fut |-> chunk_task(o.fut[j])]]
    /\ UNCHANGED <<bx, poolvars, domvars, instvars, buildervars, ex, nb, thread, input, dest>>

\* a worker thread of the pool takes the oldest queued task
TaskStart ==
    /\ \E j \in DOMAIN pt.tasks :
          /\ pt.tasks[j].status = "queued"
          /\ \A h \in 1..(j - 1) : pt.tasks[h].status # "queued"
          /\ Cardinality({h \in DOMAIN pt.tasks : pt.tasks[h].status = "running"})
                < pt.pool_size
          /\ pt' = [pt EXCEPT !.tasks[j].status = "running"]
    /\ UNCHANGED <<bx, poolvars, domvars, instvars, buildervars, ex, nb, thread, input, dest>>

\* one iteration of the loop of a running task, lines 55-60 and 76-80: the
\* element is computed and stored through d_first, the iterators move on
TaskStep ==
    /\ \E j \in DOMAIN pt.tasks :
          LET t == pt.tasks[j]
          IN  /\ t.status = "running"
              /\ loop_continues(t, pt.last1)
              /\ dest' = [dest EXCEPT ![t.d_first] =
                            [value |-> transformed(pt.binary, t.first1),
                             writers |-> Append(@.writers, j)]]
              /\ pt' = [pt EXCEPT !.tasks[j].i = @ + 1,
                                  !.tasks[j].first1 = @ + 1,
                                  !.tasks[j].d_first = @ + 1]
    /\ UNCHANGED <<bx, poolvars, domvars, instvars, buildervars, ex, nb, thread, input>>

\* the loop of a running task is over: the future becomes ready
TaskEnd ==
    /\ \E j \in DOMAIN pt.tasks :
          /\ pt.tasks[j].status = "running"
          /\ ~loop_continues(pt.tasks[j], pt.last1)
          /\ pt' = [pt EXCEPT !.tasks[j].status = "ready"]
    /\ UNCHANGED <<bx, poolvars, domvars, instvars, buildervars, ex, nb, thread, input, dest>>

\* wait_for_all, lines 36-40: one iteration; after the last one the call
\* returns
TransformWait ==
    /\ pt.pc = "waiting"
    /\ pt.tasks[pt.k].status = "ready"
    /\ pt' = [pt EXCEPT !.k = @ + 1,
                        !.pc = IF pt.k = Len(pt.tasks) THEN "returned" ELSE @]
    /\ UNCHANGED <<bx, poolvars, domvars, instvars, buildervars, ex, nb, thread, input, dest>>

NextTransform ==
    TransformCall \/ TaskStart \/ TaskStep \/ TaskEnd \/ TransformWait

SpecTransform == InitTransform /\ [][NextTransform]_vars

\* C25: Race freedom of parallel_transform, unary and binary: at every
\* moment of every interleaving each output position has been written at
\* most once, only positions of [0, n) are written, each by the chunk task
\* whose range holds it and with op applied to the input at that position;
\* when the call has returned every position of [0, n) has been written
\* exactly once.
C25_RaceFree ==
    /\ \A pos \in DOMAIN dest :
          /\ Len(dest[pos].writers) <= 1
          /\ dest[pos].writers # <<>> =>
                LET t == pt.tasks[dest[pos].writers[1]]
                IN  /\ pos < pt.last1
                    /\ t.begin <= pos /\ pos < t.end
                    /\ dest[pos].value =
                          (IF pt.binary
                           THEN 3 * input.first1[pos] + input.first2[pos] + 1
                           ELSE 2 * input.first1[pos] + 1)
    /\ pt.pc = "returned" =>
          \A pos \in 0..(pt.last1 - 1) : Len(dest[pos].writers) = 1
C25_Witness ==
    /\ pt.pc = "returned"
    /\ pt.binary
    /\ Len(pt.tasks) >= 2
    /\ \E pos \in 1..(pt.last1 - 1) :
          /\ dest[pos].writers # dest[pos - 1].writers
          /\ input.first1[pos] # input.first2[pos]

(***************************************************************************)
(* CompositionPolynomialImpl::Builder (polynomial/composition/             *)
(* polynomial.hpp, lines 78-104 and 173-204).  periodic_columns_ is a      *)
(* vector of std::optional<PeriodicColumn>, indexed from 0.                *)
(***************************************************************************)
\* the periodic columns handed to AddPeriodicColumn
Columns == 1..MaxColumns

\* std::optional<PeriodicColumn>: disengaged, or holding a column
nullopt == [has_value |-> FALSE, value |-> 0]
engaged(column) == [has_value |-> TRUE, value |-> column]

\* a PeriodicColumn that has been moved from
moved_from == -1

\* line 191: std::move(periodic_columns_[i].value()) moves the column out of
\* the optional; the optional stays engaged, holding the moved-from column
moved_out(slot) == engaged(moved_from)

\* line 176-178: the assertion and the emplace
AddPeriodicColumn_(slots, column, periodic_column_index) ==
    IF slots[periodic_column_index].has_value
    THEN [threw |-> "Cannot set periodic column twice.", slots |-> slots]
    ELSE [threw |-> "",
          slots |-> [slots EXCEPT ![periodic_column_index] = engaged(column)]]

\* the first index at which the loop of line 188 finds no value, or the size
first_uninitialized(slots) ==
    LET missing == {i \in DOMAIN slots : ~slots[i].has_value}
    IN  IF missing = {} THEN Size(slots)
        ELSE CHOOSE i \in missing : \A j \in missing : i <= j

\* lines 186-194: the columns are moved out one by one up to the first
\* uninitialized slot, where the assertion fails; with every slot
\* initialized the constructor is called, whose own assertions (lines
\* 216-219) pass or fail on the other arguments
Build_(slots, arguments_ok) ==
    LET stop == first_uninitialized(slots)
        after == [i \in DOMAIN slots |->
                     IF i < stop THEN moved_out(slots[i]) ELSE slots[i]]
    IN  [threw |-> IF stop < Size(slots) THEN "Uninitialized periodic column"
                   ELSE IF ~arguments_ok THEN "constructor"
                   ELSE "",
         columns |-> [i \in 0..(stop - 1) |-> slots[i].value],
         slots |-> after]

(***************************************************************************)
(* Specification SpecBuilder: one Builder and the calls made on it, in any *)
(* order.                                                                  *)
(***************************************************************************)
\* line 80: num_periodic_columns disengaged optionals
InitBuilder ==
    /\ bx = [pool_id |-> LOW_LEVEL_POOL_ID, elements_count |-> 0,
             pool_size |-> 1, pc |-> "unused", fut |-> <<>>]
    /\ PoolUnused
    /\ DomainUnused
    /\ InstanceUnused
    /\ TransformUnused
    /\ ExpressionUnused
    /\ \E num_periodic_columns \in 0..MaxColumns :
          periodic_columns_ = [i \in 0..(num_periodic_columns - 1) |-> nullopt]
    /\ result = [op |-> "Builder", threw |-> "", columns |-> <<>>]

AddPeriodicColumn ==
    /\ \E column \in Columns, periodic_column_index \in DOMAIN periodic_columns_ :
          LET r == AddPeriodicColumn_(periodic_columns_, column, periodic_column_index)
          IN  /\ periodic_columns_' = r.slots
              /\ result' = [op |-> "AddPeriodicColumn", threw |-> r.threw,
                            columns |-> <<>>]
    /\ UNCHANGED <<bx, poolvars, domvars, instvars, ptvars, ex, nb, thread>>

Build ==
    /\ \E arguments_ok \in BOOLEAN :
          LET r == Build_(periodic_columns_, arguments_ok)
          IN  /\ periodic_columns_' = r.slots
              /\ result' = [op |-> "Build", threw |-> r.threw,
                            columns |-> IF r.threw = "" THEN r.columns ELSE <<>>]
    /\ UNCHANGED <<bx, poolvars, domvars, instvars, ptvars, ex, nb, thread>>

\* lines 202-203: make_unique of what Build returns
BuildUniquePtr ==
    /\ \E arguments_ok \in BOOLEAN :
          LET r == Build_(periodic_columns_, arguments_ok)
          IN  /\ periodic_columns_' = r.slots
              /\ result' = [op |-> "BuildUniquePtr", threw |-> r.threw,
                            columns |-> IF r.threw = "" THEN r.columns ELSE <<>>]
    /\ UNCHANGED <<bx, poolvars, domvars, instvars, ptvars, ex, nb, thread>>

NextBuilder == AddPeriodicColumn \/ Build \/ BuildUniquePtr

SpecBuilder == InitBuilder /\ [][NextBuilder]_vars

\* C26: the Builder is back to a clean state after Build or BuildUniquePtr:
\* when one of them has returned, every periodic-column slot is empty, so
\* that AddPeriodicColumn would succeed for every index and another Build
\* would fail with 'Uninitialized periodic column' unless there is no column.
C26_CleanSlate ==
    (result.op \in {"Build", "BuildUniquePtr"} /\ result.threw = "") =>
       /\ \A i \in DOMAIN periodic_columns_ : ~periodic_columns_[i].has_value
       /\ \A i \in DOMAIN periodic_columns_ : \A column \in Columns :
             AddPeriodicColumn_(periodic_columns_, column, i).threw = ""
       /\ periodic_columns_ # <<>> =>
             Build_(periodic_columns_, TRUE).threw = "Uninitialized periodic column"

(***************************************************************************)
(* ExpressionTstr::eval (expressions/expression_tstr.hpp, lines 210-342).  *)
(* The expression is the character array str, indexed from 0; a dictionary *)
(* is a vector of names and a vector of values.  ValueType is the field.   *)
(***************************************************************************)
\* std::string::npos
npos == -1

\* line 235: the operators, by code 0..3
ops == <<"+", "-", "*", "/">>

\* the character codes of the letters
Letters == <<"a", "b", "c", "d", "e", "f", "g", "h">>
Ord(char) ==
    IF \E h \in DOMAIN Letters : Letters[h] = char
    THEN 96 + (CHOOSE h \in DOMAIN Letters : Letters[h] = char)
    ELSE 48

\* the one-letter variable names used: letters that, read as a decimal
\* digit, are not zero in the field, so that no expression divides by zero
NameChars == <<"a", "c", "d", "e", "f", "h">>

FDiv(x, y) == FMul(x, inversed(y))

\* lines 164-183: the first i in [start_pos, end_pos) at which substr
\* occurs, searched only if start_pos + n < size
find_str(str, substr, n, start_pos, end_pos) ==
    LET occurs == {i \in start_pos..(end_pos - 1) :
                      \A j \in 0..(n - 1) :
                         i + j < Size(str) /\ str[i + j] = substr[j]}
    IN  IF start_pos + n < Size(str) /\ occurs # {}
        THEN CHOOSE i \in occurs : \A h \in occurs : i <= h
        ELSE npos

\* lines 240-252 for the operator of code c: the positions found
RECURSIVE find_all(_, _, _)
find_all(str, c, start_pos) ==
    IF start_pos < Size(str) - 1
    THEN LET at == find_str(str, [j \in {0} |-> ops[c + 1]], 1, start_pos, Size(str))
         IN  IF at = npos THEN {} ELSE {at} \cup find_all(str, c, at + 1)
    ELSE {}

\* lines 238-255: the operators found, sorted by position.  In the
\* expressions considered every operator character is found, so that their
\* number is calculation_array_size (lines 205-207).
sorted_ops(str) ==
    LET all == UNION {{[pos |-> p, code |-> c] : p \in find_all(str, c, 0)} :
                         c \in 0..3}
    IN  [i \in 0..(Cardinality(all) - 1) |->
            CHOOSE o \in all : Cardinality({q \in all : q.pos < o.pos}) = i]

RECURSIVE pow10(_)
pow10(n) == IF n = 0 THEN 1 ELSE 10 * pow10(n - 1)

RECURSIVE digits_sum(_, _)
digits_sum(str, at) ==
    IF at = {} THEN 0
    ELSE LET i == CHOOSE h \in at : \A g \in at : h <= g
         IN  (Ord(str[i]) - 48) * pow10(Cardinality(at) - 1)
               + digits_sum(str, at \ {i})

\* lines 96-115: the characters of [start, end) other than spaces, read as
\* decimal digits
parse_value_type(str, start, end) ==
    digits_sum(str, {i \in start..(end - 1) : str[i] # " "}) % FieldModulus

\* lines 256-285: the values of the operands, in order; the operand i lies
\* between the operators i - 1 and i; the first dictionary name found in
\* that stretch gives the value, and with no name found the stretch is
\* parsed as a number
RECURSIVE var_array(_, _, _, _, _)
var_array(str, dictionary, sorted, i, start_pos) ==
    IF i > Size(sorted) THEN <<>>
    ELSE LET end_pos == IF i = Size(sorted) THEN Size(str) ELSE sorted[i].pos
             named == {j \in DOMAIN dictionary.names :
                          find_str(str, dictionary.names[j], Size(dictionary.names[j]),
                                   start_pos, end_pos) # npos}
         IN  IF named # {}
             THEN <<dictionary.values[CHOOSE j \in named : \A h \in named : j <= h]>>
                    \o var_array(str, dictionary, sorted, i + 1, end_pos + 1)
             ELSE <<parse_value_type(str, start_pos, end_pos)>>
                    \o var_array(str, dictionary, sorted, i + 1, start_pos)

\* one operator applied
apply(code, x, y) ==
    CASE code = 0 -> FAdd(x, y)
      [] code = 1 -> FSub(x, y)
      [] code = 2 -> FMul(x, y)
      [] code = 3 -> FDiv(x, y)

\* lines 303-316: the rest of a run of * and /
RECURSIVE mul_run(_, _, _, _)
mul_run(var, sorted, i, res) ==
    IF i < Size(sorted) /\ sorted[i].code \in {2, 3}
    THEN mul_run(var, sorted, i + 1, apply(sorted[i].code, res, var[i + 2]))
    ELSE [i |-> i, res |-> res]

\* lines 290-330: the runs of * and / reduced to one value each.  var is
\* indexed from 1 (var[i + 1] is the code's var_array[i]), the arrays of the
\* second pass from 0.
RECURSIVE first_pass(_, _, _, _, _, _)
first_pass(var, sorted, i, cnt, var_array_2, op_codes_array_2) ==
    IF i >= Size(sorted)
    THEN [var_array_2 |-> var_array_2, op_codes_array_2 |-> op_codes_array_2]
    ELSE IF sorted[i].code \in {2, 3}
    THEN LET run == mul_run(var, sorted, i + 1,
                            apply(sorted[i].code, var[i + 1], var[i + 2]))
         IN  first_pass(var, sorted, run.i + 1, cnt + 1,
                        [var_array_2 EXCEPT ![cnt] = run.res],
                        IF run.i < Size(sorted)
                        THEN [op_codes_array_2 EXCEPT ![cnt] = sorted[run.i].code]
                        ELSE op_codes_array_2)
    ELSE first_pass(var, sorted, i + 1, cnt + 1,
                    IF i = Size(sorted) - 1
                    THEN [var_array_2 EXCEPT ![cnt] = var[i + 1],
                                             ![cnt + 1] = var[i + 2]]
                    ELSE [var_array_2 EXCEPT ![cnt] = var[i + 1]],
                    [op_codes_array_2 EXCEPT ![cnt] = sorted[i].code])

\* lines 331-340: + and - applied from left to right
RECURSIVE second_pass(_, _, _, _)
second_pass(var_array_2, op_codes_array_2, i, res) ==
    IF i >= Size(op_codes_array_2) THEN res
    ELSE second_pass(var_array_2, op_codes_array_2, i + 1,
                     IF op_codes_array_2[i] \in {0, 1}
                     THEN apply(op_codes_array_2[i], res, var_array_2[i + 1])
                     ELSE res)

\* lines 210-342.  value_initial is what an element of var_array_2 holds
\* before it is assigned (a default-constructed ValueType).
eval(str, dictionary, value_initial) ==
    LET sorted == sorted_ops(str)
        var == var_array(str, dictionary, sorted, 0, 0)
        calculation_array_size_2 ==
            Cardinality({i \in DOMAIN sorted : sorted[i].code \in {0, 1}})
        passed == first_pass(var, sorted, 0, 0,
                     [i \in 0..calculation_array_size_2 |-> value_initial],
                     [i \in 0..(calculation_array_size_2 - 1) |-> 4])
    IN  second_pass(passed.var_array_2, passed.op_codes_array_2, 0,
                    passed.var_array_2[0])

(***************************************************************************)
(* Specification SpecExpression: eval of one flat expression.  The         *)
(* expression is written from its operands and operators, with or without  *)
(* a space around each operator; the operand i is the variable terms[i].   *)
(***************************************************************************)
ZeroBased(seq) == [i \in 0..(Len(seq) - 1) |-> seq[i + 1]]

\* the name of the variable j: one letter
Name(j) == [i \in {0} |-> NameChars[j + 1]]

RECURSIVE Written(_, _, _, _)
Written(terms, codes, spaced, i) ==
    IF i = 0 THEN <<NameChars[terms[0] + 1]>>
    ELSE Written(terms, codes, spaced, i - 1)
           \o (IF spaced THEN <<" ", ops[codes[i - 1] + 1], " ">>
               ELSE <<ops[codes[i - 1] + 1]>>)
           \o <<NameChars[terms[i] + 1]>>

\* the dictionaries: every variable bound to a non-zero value
Dictionaries(k) ==
    {[names |-> [j \in 0..(k - 1) |-> Name(j)],
      values |-> [j \in 0..(k - 1) |-> 1 + ((step * j + shift) % (FieldModulus - 1))]] :
        step \in {1, 3}, shift \in {0, 1}}

InitExpression ==
    /\ bx = [pool_id |-> LOW_LEVEL_POOL_ID, elements_count |-> 0,
             pool_size |-> 1, pc |-> "unused", fut |-> <<>>]
    /\ PoolUnused
    /\ DomainUnused
    /\ InstanceUnused
    /\ TransformUnused
    /\ BuilderUnused
    /\ \E k \in 1..MaxTerms, spaced \in BOOLEAN, repeat \in BOOLEAN,
          value_initial \in FieldValues :
          \E codes \in [0..(k - 2) -> 0..3], dictionary \in Dictionaries(k) :
             LET terms == [i \in 0..(k - 1) |-> IF repeat THEN i % 2 ELSE i]
             IN  ex = [pc |-> "call",
                       str |-> ZeroBased(Written(terms, codes, spaced, k - 1)),
                       spaced |-> spaced, terms |-> terms, codes |-> codes,
                       dictionary |-> dictionary,
                       value_initial |-> value_initial, res |-> 0]
    /\ nb = <<>>
    /\ thread = <<>>

Eval ==
    /\ ex.pc = "call"
    /\ ex' = [ex EXCEPT !.pc = "returned",
                        !.res = eval(ex.str, ex.dictionary, ex.value_initial)]
    /\ UNCHANGED <<bx, poolvars, domvars, instvars, ptvars, buildervars, nb, thread>>

NextExpression == Eval

SpecExpression == InitExpression /\ [][NextExpression]_vars

\* the value of the operand i
Operand(i) == ex.dictionary.values[ex.terms[i]]

\* the run of * and / that ends with the operand i, reduced from left to right
RECURSIVE RunValue(_)
RunValue(i) ==
    IF i = 0 \/ ex.codes[i - 1] \in {0, 1} THEN Operand(i)
    ELSE IF ex.codes[i - 1] = 2 THEN FMul(RunValue(i - 1), Operand(i))
    ELSE FMul(RunValue(i - 1), inversed(Operand(i)))

\* the first operand of the run the operand i is in
RECURSIVE RunStart(_)
RunStart(i) ==
    IF i = 0 \/ ex.codes[i - 1] \in {0, 1} THEN i ELSE RunStart(i - 1)

\* the runs up to the one ending with the operand i, added and subtracted
\* from left to right
RECURSIVE SumValue(_)
SumValue(i) ==
    IF RunStart(i) = 0 THEN RunValue(i)
    ELSE IF ex.codes[RunStart(i) - 1] = 0
    THEN FAdd(SumValue(RunStart(i) - 1), RunValue(i))
    ELSE FSub(SumValue(RunStart(i) - 1), RunValue(i))

\* C27: eval of a flat expression of variables joined by +, -, * and /
\* (written with spaces, at least one operator, every variable in the
\* dictionary) returns the value obtained by reducing each maximal run of *
\* and / from left to right and then applying + and - from left to right.
C27_EvalPrecedence ==
    (ex.pc = "returned" /\ ex.spaced /\ Size(ex.codes) >= 1) =>
       ex.res = SumValue(Size(ex.terms) - 1)

(***************************************************************************)
(* Neighbors and Neighbors::Iterator (polynomial/composition/              *)
(* neighbors.hpp).  Unsigned words are numbers modulo 2^WordBits, int64_t  *)
(* values lie in [-2^(WordBits-1), 2^(WordBits-1)).  The element of a      *)
(* trace column is named by its column and row.                            *)
(***************************************************************************)
RECURSIVE Pow2(_)
Pow2(n) == IF n = 0 THEN 1 ELSE 2 * Pow2(n - 1)

Word == Pow2(WordBits)

\* an int64_t converted to the unsigned type of the other operand
to_unsigned(x) == IF x < 0 THEN x + Word ELSE x

\* unsigned addition
wrapping_add(x, y) == (x + y) % Word

\* the operator & on unsigned words, bit by bit
RECURSIVE bit_and(_, _)
bit_and(x, y) ==
    IF x = 0 \/ y = 0 THEN 0
    ELSE (x % 2) * (y % 2) + 2 * bit_and(x \div 2, y \div 2)

\* mutant: the mask is the coset size itself
neighbor_wraparound_mask_mut(coset_size_) == coset_size_
\* line 142: neighbor_wraparound_mask_(coset_size_ - 1)
neighbor_wraparound_mask(coset_size_) == wrapping_add(coset_size_, Word - 1)

\* lines 172 and 177: (idx_ + row) & neighbor_wraparound_mask
wrapped_row(idx_, row, coset_size_) ==
    bit_and(wrapping_add(idx_, to_unsigned(row)),
            neighbor_wraparound_mask(coset_size_))

\* lines 162-183: the loop over the mask; the elements read, in order
RECURSIVE deref(_, _, _, _, _)
deref(mask, ntrace, coset_size_, idx_, j) ==
    IF j > Len(mask) THEN [neighbors |-> <<>>, composition_neighbors |-> <<>>]
    ELSE LET rest == deref(mask, ntrace, coset_size_, idx_, j + 1)
             at == wrapped_row(idx_, mask[j].row, coset_size_)
         IN  IF mask[j].col < ntrace
             THEN [rest EXCEPT !.neighbors =
                      <<[col |-> mask[j].col, row |-> at]>> \o @]
             ELSE [rest EXCEPT !.composition_neighbors =
                      <<[col |-> mask[j].col - ntrace, row |-> at]>> \o @]

(***************************************************************************)
(* Specification SpecNeighbors: a Neighbors object over a coset of size    *)
(* 2^k, an iterator moved from begin() towards end() and dereferenced.     *)
(***************************************************************************)
\* the int64_t values
Rows == (-(Word \div 2))..((Word \div 2) - 1)

\* the masks: none, one item with any row, or that item followed by a
\* second one for the last column
Masks(ncols) ==
    {<<>>}
      \cup {<<[row |-> row, col |-> col]>> : row \in Rows, col \in 0..(ncols - 1)}
      \cup {<<[row |-> row, col |-> col], [row |-> -1, col |-> ncols - 1]>> :
               row \in {-(Word \div 2), -1, 0, 1}, col \in 0..(ncols - 1)}

\* lines 135-151 with the assertions passed, and begin() of line 88
InitNeighbors ==
    /\ bx = [pool_id |-> LOW_LEVEL_POOL_ID, elements_count |-> 0,
             pool_size |-> 1, pc |-> "unused", fut |-> <<>>]
    /\ PoolUnused
    /\ DomainUnused
    /\ InstanceUnused
    /\ TransformUnused
    /\ BuilderUnused
    /\ ex = <<>>
    /\ thread = <<>>
    /\ \E k \in 0..MaxLog, ntrace \in 1..2, ncomp \in 0..1 :
          \E mask \in Masks(ntrace + ncomp) :
             nb = [mask_ |-> mask, coset_size_ |-> Pow2(k), ntrace |-> ntrace,
                   ncomp |-> ncomp, idx_ |-> 0, pc |-> "begin", at |-> 0,
                   neighbors |-> <<>>, composition_neighbors |-> <<>>]

\* operator++, lines 54-57, in a loop that ends at end()
Increment ==
    /\ nb.idx_ < nb.coset_size_
    /\ nb' = [nb EXCEPT !.idx_ = wrapping_add(@, 1), !.pc = "moved"]
    /\ UNCHANGED <<bx, poolvars, domvars, instvars, ptvars, buildervars, ex, thread>>

\* operator*, lines 162-183, at a position before end()
Dereference ==
    /\ nb.idx_ < nb.coset_size_
    /\ nb.pc # "read"
    /\ LET r == deref(nb.mask_, nb.ntrace, nb.coset_size_, nb.idx_, 1)
       IN  nb' = [nb EXCEPT !.pc = "read", !.at = nb.idx_,
                            !.neighbors = r.neighbors,
                            !.composition_neighbors = r.composition_neighbors]
    /\ UNCHANGED <<bx, poolvars, domvars, instvars, ptvars, buildervars, ex, thread>>

NextNeighbors == Increment \/ Dereference

SpecNeighbors == InitNeighbors /\ [][NextNeighbors]_vars

\* the mask items of the base trace, and those of the composition trace
BaseItems == SelectSeq(nb.mask_, LAMBDA it : it.col < nb.ntrace)
CompositionItems == SelectSeq(nb.mask_, LAMBDA it : it.col >= nb.ntrace)

\* C28: Neighbors::Iterator wraparound: for a coset of size 2^k, every
\* position idx in [0, 2^k) and every mask row offset, positive, zero or
\* negative, the row operator* reads is the mathematical (idx + row) mod
\* coset_size, in [0, coset_size), and the base and composition neighbours
\* returned are together as many as the mask has items.
C28_Wraparound ==
    nb.pc = "read" =>
       /\ Len(nb.neighbors) + Len(nb.composition_neighbors) = Len(nb.mask_)
       /\ Len(nb.neighbors) = Len(BaseItems)
       /\ \A j \in DOMAIN nb.neighbors :
             /\ nb.neighbors[j].row \in 0..(nb.coset_size_ - 1)
             /\ nb.neighbors[j].row = (nb.at + BaseItems[j].row) % nb.coset_size_
             /\ nb.neighbors[j].col = BaseItems[j].col
       /\ \A j \in DOMAIN nb.composition_neighbors :
             /\ nb.composition_neighbors[j].row \in 0..(nb.coset_size_ - 1)
             /\ nb.composition_neighbors[j].row
                   = (nb.at + CompositionItems[j].row) % nb.coset_size_
             /\ nb.composition_neighbors[j].col = CompositionItems[j].col - nb.ntrace
C28_Witness ==
    /\ nb.pc = "read"
    /\ nb.coset_size_ = Pow2(MaxLog)
    /\ nb.at = nb.coset_size_ - 1
    /\ Len(nb.neighbors) = 1
    /\ Len(nb.composition_neighbors) = 1
    /\ nb.mask_[1].row = -(Word \div 2)

(***************************************************************************)
(* Specification SpecShared: one fresh geometric_sequence_domain shared by *)
(* two threads, each making one get_domain_element call (lines 302-307).   *)
(* Nothing orders the accesses of the threads to precomputation_sentinel   *)
(* and to the two vectors (lines 53-55 are plain members), so the          *)
(* statements of do_precomputation (lines 57-72) of one thread interleave  *)
(* with those of the other in every order.  A read of an element that      *)
(* races with the writes of a thread inside do_precomputation yields any   *)
(* value.                                                                  *)
(***************************************************************************)
Threads == {1, 2}

InitShared ==
    /\ bx = [pool_id |-> LOW_LEVEL_POOL_ID, elements_count |-> 0,
             pool_size |-> 1, pc |-> "unused", fut |-> <<>>]
    /\ PoolUnused
    /\ InstanceUnused
    /\ TransformUnused
    /\ BuilderUnused
    /\ ex = <<>>
    /\ nb = <<>>
    /\ geometric_generator \in FieldValues \ {0}
    /\ \E m \in 2..MaxM :
          /\ domain = geometric_sequence_domain(m)
          /\ thread \in [Threads -> [pc : {"call"}, idx : 0..(m - 1), i : {1},
                                     ret : {0}]]
    /\ buffer = <<>>
    /\ buffer0 = <<>>
    /\ hist = <<>>
    /\ out = <<>>
    /\ inverted_zero = FALSE

SharedFrame ==
    UNCHANGED <<bx, poolvars, instvars, ptvars, buildervars, ex, nb,
                geometric_generator, buffer, buffer0, hist, out, inverted_zero>>

\* the thread is inside do_precomputation
Precomputing(t) ==
    thread[t].pc \in {"line 58", "line 61", "line 64", "line 71"}

\* line 303: the test of the sentinel
TestSentinel(t) ==
    /\ thread[t].pc = "call"
    /\ thread' = [thread EXCEPT ![t].pc =
                     IF domain.precomputation_sentinel THEN "line 306" ELSE "line 58"]
    /\ UNCHANGED domain
    /\ SharedFrame

\* lines 58-59: geometric_sequence is assigned a new vector of m zeros, whose
\* first element is set to one
AssignSequence(t) ==
    /\ thread[t].pc = "line 58"
    /\ domain' = [domain EXCEPT !.geometric_sequence =
                     [j \in 0..(domain.m - 1) |-> IF j = 0 THEN 1 ELSE 0]]
    /\ thread' = [thread EXCEPT ![t].pc = "line 61"]
    /\ SharedFrame

\* lines 61-62: the same for geometric_triangular_sequence
AssignTriangular(t) ==
    /\ thread[t].pc = "line 61"
    /\ domain' = [domain EXCEPT !.geometric_triangular_sequence =
                     [j \in 0..(domain.m - 1) |-> IF j = 0 THEN 1 ELSE 0]]
    /\ thread' = [thread EXCEPT ![t].pc = "line 64", ![t].i = 1]
    /\ SharedFrame

\* lines 64-69: one iteration of the loop, or its end
FillSequences(t) ==
    /\ thread[t].pc = "line 64"
    /\ LET i == thread[t].i
       IN  IF i < domain.m
           THEN /\ domain' = [domain EXCEPT
                      !.geometric_sequence[i] =
                          FMul(domain.geometric_sequence[i - 1], geometric_generator),
                      !.geometric_triangular_sequence[i] =
                          FMul(domain.geometric_triangular_sequence[i - 1],
                               domain.geometric_sequence[i - 1])]
                /\ thread' = [thread EXCEPT ![t].i = i + 1]
           ELSE /\ thread' = [thread EXCEPT ![t].pc = "line 71"]
                /\ UNCHANGED domain
    /\ SharedFrame

\* line 71
SetSentinel(t) ==
    /\ thread[t].pc = "line 71"
    /\ domain' = [domain EXCEPT !.precomputation_sentinel = TRUE,
                                !.precomputations = @ + 1]
    /\ thread' = [thread EXCEPT ![t].pc = "line 306"]
    /\ SharedFrame

\* line 306: return this->geometric_sequence[idx]
ReadElement(t) ==
    /\ thread[t].pc = "line 306"
    /\ \E v \in (IF \E u \in Threads \ {t} : Precomputing(u)
                 THEN FieldValues
                 ELSE {domain.geometric_sequence[thread[t].idx]}) :
          thread' = [thread EXCEPT ![t].pc = "returned", ![t].ret = v]
    /\ UNCHANGED domain
    /\ SharedFrame

NextShared ==
    \E t \in Threads :
       \/ TestSentinel(t)
       \/ AssignSequence(t)
       \/ AssignTriangular(t)
       \/ FillSequences(t)
       \/ SetSentinel(t)
       \/ ReadElement(t)

SpecShared == InitShared /\ [][NextShared]_vars

\* C29: the lazy cache is safe to share: when two threads make their first
\* calls concurrently on a fresh domain, a thread that is about to read the
\* sequence (it saw the sentinel set, or has run do_precomputation itself)
\* finds it fully populated, no other thread is assigning or filling it at
\* that moment, and the value returned is the domain element g^idx.
C29_SafeToShare ==
    \A t \in Threads :
       /\ thread[t].pc = "line 306" =>
             /\ domain.precomputation_sentinel
             /\ domain.geometric_sequence
                   = geometric_sequence_of(domain.m, geometric_generator)
             /\ \A u \in Threads \ {t} : ~Precomputing(u)
       /\ thread[t].pc = "returned" =>
             thread[t].ret = Power(geometric_generator, thread[t].idx)

\* C30: every pair (m, g) the constructor accepts has m pairwise distinct
\* elements g^0 .. g^(m-1), so that g^i - 1 is not zero for 0 < i < m and
\* neither fft nor inverse_fft calls inversed() on zero.
C30_AcceptedDistinct ==
    Constructed =>
       /\ Distinct
       /\ \A i \in 1..(domain.m - 1) : Power(geometric_generator, i) # 1
       /\ out.op \in {"fft", "inverse_fft"} => ~inverted_zero
====
